---- MODULE Spec2Model ----
(***************************************************************************)
(* Event-to-alert arbitration engine of selfdrive/controls/lib/events.py:  *)
(* the Events container (active list, static list, per-event age), the     *)
(* Alert value classes, the alert callbacks and the EVENTS catalog.        *)
(*                                                                         *)
(* Representation.  Times that the source keeps as float seconds are kept  *)
(* as integers in hundredths of a second, so DT_CTRL (0.01 s) is 1, a      *)
(* creation_delay of 0.5 s is 50 and a duration of 2.5 s is 250; every     *)
(* product and quotient the source forms on the catalog's values is exact  *)
(* in this unit.  alert_rate is kept in hundredths as well.  Speeds are    *)
(* kept in 1/10000 m/s.  Event identifiers (capnp EventName enumerants)    *)
(* are represented by their enumerant names, capnp enum values             *)
(* (AlertStatus, AlertSize, VisualAlert, AudibleAlert) by their names.     *)
(***************************************************************************)
EXTENDS Integers, Sequences, FiniteSets, TLC

\* common.realtime.DT_CTRL, the 0.01 s control period, in hundredths of a second
DT_CTRL == 1

\* class Priority(IntEnum)
Priority ==
  [LOWEST |-> 0, LOWER |-> 1, LOW |-> 2, MID |-> 3, HIGH |-> 4, HIGHEST |-> 5]

\* class ET
ET ==
  [ENABLE |-> "enable", PRE_ENABLE |-> "preEnable", NO_ENTRY |-> "noEntry",
   WARNING |-> "warning", USER_DISABLE |-> "userDisable",
   SOFT_DISABLE |-> "softDisable", IMMEDIATE_DISABLE |-> "immediateDisable",
   PERMANENT |-> "permanent"]

\* the values of class ET
EventTypes == {ET[k] : k \in DOMAIN ET}

\* Python's None
None == "None"

\* Python's int(x / y) for x >= 0, y > 0
IntDiv(x, y) == x \div y

(***************************************************************************)
(* Python's float is the IEEE 754 double: 53 significant bits, every       *)
(* operation rounded to the nearest double, ties to the even one.  A       *)
(* non-negative integer of any size is a sequence of digits of base LIMB,  *)
(* least significant first; a double is [negative, m, e]: its sign and its *)
(* magnitude m * 2^e, with m below 2^53 (or 2^53 itself after a carry).    *)
(* Rounding to nearest, ties to even, acts on the magnitude alone.         *)
(***************************************************************************)
LIMB_BITS == 15

LIMB == 32768

MANTISSA_BITS == 53

Pow2(n) == 2 ^ n

\* an integer 0 <= n < 2^31 as a sequence of digits
BigOfInt(n) == <<n % LIMB, (n \div LIMB) % LIMB, n \div (LIMB * LIMB)>>

Digit(a, i) == IF i >= 1 /\ i <= Len(a) THEN a[i] ELSE 0

\* the sequence of the n digits digit[1], ..., digit[n]
Digits(digit, n) == SubSeq(digit, 1, n)

\* the integer of a sequence of digits whose value is below 2^31
BigToInt(a) == Digit(a, 1) + LIMB * Digit(a, 2) + LIMB * LIMB * Digit(a, 3)

\* bit i of a, bit 0 the least significant
Bit(a, i) ==
  IF i < 0 THEN 0 ELSE (Digit(a, i \div LIMB_BITS + 1) \div Pow2(i % LIMB_BITS)) % 2

\* a \div 2^t: digit i takes the high bits of digit i + q and the low bits
\* of the digit above it
ShiftRight(a, t) ==
  LET q == t \div LIMB_BITS
      r == t % LIMB_BITS
  IN  Digits([i \in 1..Len(a) |->
                Digit(a, i + q) \div Pow2(r)
                  + (Digit(a, i + q + 1) % Pow2(r)) * Pow2(LIMB_BITS - r)], Len(a))

\* a * 2^t
ShiftLeft(a, t) ==
  LET q == t \div LIMB_BITS
      r == t % LIMB_BITS
      n == Len(a) + q + 1
  IN  Digits([i \in 1..n |->
                (Digit(a, i - q) % Pow2(LIMB_BITS - r)) * Pow2(r)
                  + Digit(a, i - q - 1) \div Pow2(LIMB_BITS - r)], n)

\* whether a % 2^t is not 0
LowBits(a, t) ==
  \/ \E i \in 1..(t \div LIMB_BITS) : Digit(a, i) # 0
  \/ Digit(a, t \div LIMB_BITS + 1) % Pow2(t % LIMB_BITS) # 0

RECURSIVE BitLengthOfDigit(_)
BitLengthOfDigit(d) == IF d = 0 THEN 0 ELSE 1 + BitLengthOfDigit(d \div 2)

RECURSIVE BitLengthFrom(_, _)
\* the number of bits of the lowest i digits of a
BitLengthFrom(a, i) ==
  IF i = 0 THEN 0
  ELSE IF a[i] # 0 THEN LIMB_BITS * (i - 1) + BitLengthOfDigit(a[i])
  ELSE BitLengthFrom(a, i - 1)

\* the number of bits of a, 0 for 0
BitLength(a) == BitLengthFrom(a, Len(a))

RECURSIVE AddCarry(_, _, _)
AddCarry(a, b, i) ==
  IF i = 0 THEN 0 ELSE (Digit(a, i) + Digit(b, i) + AddCarry(a, b, i - 1)) \div LIMB

BigAdd(a, b) ==
  LET n == (IF Len(a) > Len(b) THEN Len(a) ELSE Len(b)) + 1
  IN  Digits([i \in 1..n |-> (Digit(a, i) + Digit(b, i) + AddCarry(a, b, i - 1)) % LIMB], n)

RECURSIVE MulCarry(_, _, _)
MulCarry(a, d, i) ==
  IF i = 0 THEN 0 ELSE (Digit(a, i) * d + MulCarry(a, d, i - 1)) \div LIMB

\* a * d for a digit d
BigMulSmall(a, d) ==
  Digits([i \in 1..(Len(a) + 1) |-> (Digit(a, i) * d + MulCarry(a, d, i - 1)) % LIMB],
         Len(a) + 1)

RECURSIVE MulRows(_, _, _)
\* a times the lowest i digits of b
MulRows(a, b, i) ==
  IF i = 0 THEN <<0>>
  ELSE BigAdd(MulRows(a, b, i - 1),
              Digits([j \in 1..(i - 1) |-> 0], i - 1) \o BigMulSmall(a, b[i]))

BigMul(a, b) == MulRows(a, b, Len(b))

RECURSIVE DivRem(_, _, _)
\* the remainder of the digits of a from digit i up, divided by d < LIMB
DivRem(a, d, i) ==
  IF i > Len(a) THEN 0 ELSE (DivRem(a, d, i + 1) * LIMB + a[i]) % d

\* a \div d and a % d for 0 < d < LIMB
BigDivSmall(a, d) ==
  [quotient |-> Digits([i \in 1..Len(a) |-> (DivRem(a, d, i + 1) * LIMB + a[i]) \div d],
                       Len(a)),
   remainder |-> DivRem(a, d, 1)]

\* a / 2^t rounded to the nearest integer, ties to even
RoundShift(a, t) ==
  IF t <= 0 THEN ShiftLeft(a, 0 - t)
  ELSE LET up == /\ Bit(a, t - 1) = 1
                 /\ \/ Bit(a, t) = 1
                    \/ LowBits(a, t - 1)
       IN  IF up THEN BigAdd(ShiftRight(a, t), <<1>>) ELSE ShiftRight(a, t)

\* the digits of a mantissa: four digits hold the MANTISSA_BITS bits
Mantissa(a) == <<Digit(a, 1), Digit(a, 2), Digit(a, 3), Digit(a, 4)>>

\* the double nearest to m * 2^e, negated if negative
FloatRound(negative, m, e) ==
  LET t == BitLength(m) - MANTISSA_BITS
  IN  IF t <= 0 THEN [negative |-> negative, m |-> Mantissa(m), e |-> e]
      ELSE [negative |-> negative, m |-> Mantissa(RoundShift(m, t)), e |-> e + t]

\* the double n / d of integers -2^31 < n < 2^31 and 0 < d < LIMB; the
\* quotient of the magnitudes is taken with more than MANTISSA_BITS + 1 bits
\* and a last bit that tells whether the division left a remainder
FloatDivInt(n, d) ==
  LET qr == BigDivSmall(ShiftLeft(BigOfInt(IF n < 0 THEN 0 - n ELSE n), 70), d)
      m  == BigAdd(ShiftLeft(qr.quotient, 1), <<IF qr.remainder # 0 THEN 1 ELSE 0>>)
  IN  FloatRound(n < 0, m, 0 - 71)

\* x * y
FloatMul(x, y) == FloatRound(x.negative # y.negative, BigMul(x.m, y.m), x.e + y.e)

\* int(round(x)) for -2^31 < x < 2^31; the integer of -0.0 is 0
FloatRoundToInt(x) ==
  (IF x.negative THEN 0 - 1 ELSE 1) * BigToInt(RoundShift(x.m, 0 - x.e))

(***************************************************************************)
(* class Alert and its subclasses.  An Alert value is a record of the      *)
(* fields Alert.__init__ sets.                                             *)
(***************************************************************************)
Alert(alert_text_1, alert_text_2, alert_status, alert_size, priority, visual_alert, audible_alert, duration, alert_rate, creation_delay) ==
  [alert_text_1 |-> alert_text_1,
   alert_text_2 |-> alert_text_2,
   alert_status |-> alert_status,
   alert_size |-> alert_size,
   priority |-> priority,
   visual_alert |-> visual_alert,
   audible_alert |-> audible_alert,
   duration |-> IntDiv(duration, DT_CTRL),
   alert_rate |-> alert_rate,
   creation_delay |-> creation_delay,
   alert_type |-> "",
   event_type |-> None]

\* a bug that passes the duration of 3 s as the creation delay
NoEntryAlert_delayed(alert_text_2, visual_alert) ==
  Alert("SDPilot Unavailable", alert_text_2, "normal", "mid", Priority.LOW,
        visual_alert, "refuse", 0, 0, 300)

NoEntryAlert(alert_text_2, visual_alert) ==
  Alert("SDPilot Unavailable", alert_text_2, "normal", "mid", Priority.LOW,
        visual_alert, "refuse", 300, 0, 0)

SoftDisableAlert(alert_text_2) ==
  Alert("TAKE CONTROL IMMEDIATELY", alert_text_2, "userPrompt", "full",
        Priority.MID, "steerRequired", "warningSoft", 200, 0, 0)

UserSoftDisableAlert(alert_text_2) ==
  [SoftDisableAlert(alert_text_2) EXCEPT !.alert_text_1 = "SDPilot will disengage"]

ImmediateDisableAlert(alert_text_2) ==
  Alert("TAKE CONTROL IMMEDIATELY", alert_text_2, "critical", "full",
        Priority.HIGHEST, "steerRequired", "warningImmediate", 400, 0, 0)

EngagementAlert(audible_alert) ==
  Alert("", "", "normal", "none", Priority.MID, "none", audible_alert, 20, 0, 0)

NormalPermanentAlert(alert_text_1, alert_text_2, duration, priority, creation_delay) ==
  Alert(alert_text_1, alert_text_2, "normal",
        IF alert_text_2 # "" THEN "mid" ELSE "small",
        priority, "none", "none", duration, 0, creation_delay)

StartupAlert(alert_text_1, alert_text_2, alert_status) ==
  Alert(alert_text_1, alert_text_2, alert_status, "mid", Priority.LOWER,
        "none", "none", 250, 0, 0)

\* Alert.__gt__
\* a comparison that also holds between alerts of equal priority
Alert_ge(alert, alert2) == alert.priority >= alert2.priority

Alert_gt(alert, alert2) == alert.priority > alert2.priority

(***************************************************************************)
(* Helper and callback functions.  A callback is applied to                *)
(* callback_args = <<CP, sm, metric, soft_disable_time>> and either        *)
(* returns an Alert or raises; the outcome is [raised, alert].             *)
(***************************************************************************)
\* selfdrive.config.Conversions, as doubles: MS_TO_KPH = 3.6 is
\* 8106479329266893 * 2^-51, and MS_TO_MPH = MS_TO_KPH * KPH_TO_MPH with
\* KPH_TO_MPH = 1. / 1.609344 is 2.2369362920544025 = 5037132725673873 * 2^-51
MS_TO_KPH == [negative |-> FALSE, m |-> <<19661, 6553, 13107, 230>>, e |-> 0 - 51]

MS_TO_MPH == [negative |-> FALSE, m |-> <<24465, 13721, 5371, 143>>, e |-> 0 - 51]

\* a speed is given as an integer of 1/SPEED_UNIT m/s and stands for the
\* double nearest to it
SPEED_UNIT == 10000

\* selfdrive.locationd.calibrationd.MIN_SPEED_FILTER = 15 mph = 6.7056 m/s
MIN_SPEED_FILTER == 67056

get_display_speed(speed_ms, metric) ==
  LET speed == FloatRoundToInt(FloatMul(FloatDivInt(speed_ms, SPEED_UNIT),
                                        IF metric THEN MS_TO_KPH ELSE MS_TO_MPH))
      unit == IF metric THEN "km/h" ELSE "mph"
  IN  ToString(speed) \o " " \o unit

Returned(alert) == [raised |-> FALSE, alert |-> alert]

\* an exception propagating out of a callback
Raised == [raised |-> TRUE, alert |-> None]

\* int(0.5 / DT_CTRL)
SoftDisableThreshold == IntDiv(50, DT_CTRL)

\* a bug that escalates at the threshold itself
soft_disable_alert_at_threshold(alert_text_2, CP, sm, metric, soft_disable_time) ==
  IF soft_disable_time <= SoftDisableThreshold
  THEN Returned(ImmediateDisableAlert(alert_text_2))
  ELSE Returned(SoftDisableAlert(alert_text_2))

soft_disable_alert(alert_text_2, CP, sm, metric, soft_disable_time) ==
  IF soft_disable_time < SoftDisableThreshold
  THEN Returned(ImmediateDisableAlert(alert_text_2))
  ELSE Returned(SoftDisableAlert(alert_text_2))

user_soft_disable_alert(alert_text_2, CP, sm, metric, soft_disable_time) ==
  IF soft_disable_time < SoftDisableThreshold
  THEN Returned(ImmediateDisableAlert(alert_text_2))
  ELSE Returned(UserSoftDisableAlert(alert_text_2))

below_engage_speed_alert(CP, sm, metric, soft_disable_time) ==
  Returned(NoEntryAlert("Speed Below " \o get_display_speed(CP.minEnableSpeed, metric), "none"))

below_steer_speed_alert(CP, sm, metric, soft_disable_time) ==
  Returned(Alert("Steer Unavailable Below " \o get_display_speed(CP.minSteerSpeed, metric),
                 "", "userPrompt", "small", Priority.MID, "steerRequired", "prompt",
                 40, 0, 0))

calibration_incomplete_alert(CP, sm, metric, soft_disable_time) ==
  Returned(Alert("Calibration in Progress: " \o ToString(sm.liveCalibration.calPerc) \o "%",
                 "Drive Above " \o get_display_speed(MIN_SPEED_FILTER, metric),
                 "normal", "mid", Priority.LOWEST, "none", "none", 20, 0, 0))

no_gps_alert(CP, sm, metric, soft_disable_time) ==
  LET gps_integrated == sm.peripheralState.pandaType \in {"uno", "dos"}
  IN  Returned(Alert("Poor GPS reception",
                     IF gps_integrated THEN "If sky is visible, contact support"
                                       ELSE "Check GPS antenna placement",
                     "normal", "mid", Priority.LOWER, "none", "none", 20, 0, 30000))

wrong_car_mode_alert(CP, sm, metric, soft_disable_time) ==
  LET text == IF CP.carName = "honda" THEN "Main Switch Off" ELSE "Cruise Mode Disabled"
  IN  Returned(NoEntryAlert(text, "none"))

\* axes values are integers in hundredths, so round(gb * 100.) is the value itself.
\* "gb, steer = list(axes)[:2]" unpacks exactly two values: a one-element list
\* raises ValueError.
joystick_alert(CP, sm, metric, soft_disable_time) ==
  LET axes == sm.testJoystick.axes
      two  == IF Len(axes) # 0 THEN SubSeq(axes, 1, IF Len(axes) < 2 THEN Len(axes) ELSE 2)
                               ELSE <<0, 0>>
  IN  IF Len(two) # 2 THEN Raised
      ELSE LET gb    == two[1]
               steer == two[2]
               vals  == "Gas: " \o ToString(gb) \o "%, Steer: " \o ToString(steer) \o "%"
           IN  Returned(NormalPermanentAlert("Joystick Mode", vals, 20, Priority.LOWER, 0))

EVENTS_keys ==
  {"stockFcw", "joystickDebug", "controlsInitializing", "startup",
   "startupMaster", "startupNoControl", "startupNoCar", "startupNoFw",
   "dashcamMode", "invalidLkasSetting", "cruiseMismatch", "communityFeatureDisallowed",
   "carUnrecognized", "stockAeb", "fcw", "ldw",
   "gasPressed", "vehicleModelInvalid", "steerTempUnavailableSilent", "preDriverDistracted",
   "promptDriverDistracted", "driverDistracted", "preDriverUnresponsive", "promptDriverUnresponsive",
   "driverUnresponsive", "manualRestart", "resumeRequired", "belowSteerSpeed",
   "preLaneChangeLeft", "preLaneChangeRight", "laneChangeBlocked", "laneChange",
   "steerSaturated", "fanMalfunction", "cameraMalfunction", "gpsMalfunction",
   "localizerMalfunction", "pcmEnable", "buttonEnable", "pcmDisable",
   "buttonCancel", "brakeHold", "parkBrake", "pedalPressed",
   "wrongCarMode", "wrongCruiseMode", "steerTempUnavailable", "outOfSpace",
   "belowEngageSpeed", "sensorDataInvalid", "noGps", "soundsUnavailable",
   "tooDistracted", "overheat", "wrongGear", "calibrationInvalid",
   "calibrationIncomplete", "doorOpen", "seatbeltNotLatched", "espDisabled",
   "lowBattery", "commIssue", "processNotRunning", "radarFault",
   "modeldLagging", "posenetInvalid", "deviceFalling", "lowMemory",
   "highCpuUsage", "accFaulted", "controlsMismatch", "roadCameraError",
   "driverCameraError", "wideRoadCameraError", "usbError", "canError",
   "steerUnavailable", "brakeUnavailable", "reverseGear", "cruiseDisabled",
   "plannerError", "relayMalfunction", "noTarget", "speedTooLow",
   "speedTooHigh", "lowSpeedLockout"}

EVENTS ==
  [e \in EVENTS_keys |->
    CASE e = "stockFcw" ->  \* line 275
          << >>
      [] e = "joystickDebug" ->  \* line 279
          "warning" :> [kind |-> "callback", fn |-> "joystick_alert", text |-> ""]
       @@ "permanent" :> [kind |-> "Alert", alert |-> NormalPermanentAlert("Joystick Mode", "", 20, Priority.LOWER, 0)]
      [] e = "controlsInitializing" ->  \* line 284
          "noEntry" :> [kind |-> "Alert", alert |-> NoEntryAlert("System Initializing", "none")]
      [] e = "startup" ->  \* line 288
          "permanent" :> [kind |-> "Alert", alert |-> StartupAlert("Be ready to take over at any time", "Always keep hands on wheel and eyes on road", "normal")]
      [] e = "startupMaster" ->  \* line 292
          "permanent" :> [kind |-> "Alert", alert |-> StartupAlert("WARNING: This branch is not tested", "Always keep hands on wheel and eyes on road", "userPrompt")]
      [] e = "startupNoControl" ->  \* line 298
          "permanent" :> [kind |-> "Alert", alert |-> StartupAlert("Dashcam mode", "Always keep hands on wheel and eyes on road", "normal")]
      [] e = "startupNoCar" ->  \* line 303
          "permanent" :> [kind |-> "Alert", alert |-> StartupAlert("Dashcam mode for unsupported car", "Always keep hands on wheel and eyes on road", "normal")]
      [] e = "startupNoFw" ->  \* line 307
          "permanent" :> [kind |-> "Alert", alert |-> StartupAlert("Car Unrecognized", "Check comma power connections", "userPrompt")]
      [] e = "dashcamMode" ->  \* line 313
          "permanent" :> [kind |-> "Alert", alert |-> NormalPermanentAlert("Dashcam Mode", "", 20, Priority.LOWEST, 0)]
      [] e = "invalidLkasSetting" ->  \* line 318
          "permanent" :> [kind |-> "Alert", alert |-> NormalPermanentAlert("Stock LKAS is on", "Turn off stock LKAS to engage", 20, Priority.LOWER, 0)]
      [] e = "cruiseMismatch" ->  \* line 323
          << >>
      [] e = "communityFeatureDisallowed" ->  \* line 330
          "permanent" :> [kind |-> "Alert", alert |-> NormalPermanentAlert("SDPilot Unavailable", "Enable Community Features in Settings", 20, Priority.LOWER, 0)]
      [] e = "carUnrecognized" ->  \* line 338
          "permanent" :> [kind |-> "Alert", alert |-> NormalPermanentAlert("Dashcam Mode", "Car Unrecognized", 20, Priority.LOWEST, 0)]
      [] e = "stockAeb" ->  \* line 344
          "permanent" :> [kind |-> "Alert", alert |-> Alert("BRAKE!", "Stock AEB: Risk of Collision", "critical", "full", Priority.HIGHEST, "fcw", "none", 200, 0, 0)]
       @@ "noEntry" :> [kind |-> "Alert", alert |-> NoEntryAlert("Stock AEB: Risk of Collision", "none")]
      [] e = "fcw" ->  \* line 353
          "permanent" :> [kind |-> "Alert", alert |-> Alert("BRAKE!", "Risk of Collision", "critical", "full", Priority.HIGHEST, "fcw", "warningSoft", 200, 0, 0)]
      [] e = "ldw" ->  \* line 361
          "permanent" :> [kind |-> "Alert", alert |-> Alert("Lane Departure Detected", "", "userPrompt", "small", Priority.LOW, "ldw", "prompt", 300, 0, 0)]
      [] e = "gasPressed" ->  \* line 371
          "preEnable" :> [kind |-> "Alert", alert |-> Alert("Release Gas Pedal to Engage", "", "normal", "small", Priority.LOWEST, "none", "none", 10, 0, 100)]
      [] e = "vehicleModelInvalid" ->  \* line 387
          "noEntry" :> [kind |-> "Alert", alert |-> NoEntryAlert("Vehicle Parameter Identification Failed", "none")]
       @@ "softDisable" :> [kind |-> "callback", fn |-> "soft_disable_alert", text |-> "Vehicle Parameter Identification Failed"]
      [] e = "steerTempUnavailableSilent" ->  \* line 392
          "warning" :> [kind |-> "Alert", alert |-> Alert("Steering Temporarily Unavailable", "", "userPrompt", "small", Priority.LOW, "steerRequired", "prompt", 100, 0, 0)]
      [] e = "preDriverDistracted" ->  \* line 400
          "warning" :> [kind |-> "Alert", alert |-> Alert("Pay Attention", "", "normal", "small", Priority.LOW, "none", "none", 10, 0, 0)]
      [] e = "promptDriverDistracted" ->  \* line 408
          "warning" :> [kind |-> "Alert", alert |-> Alert("Pay Attention", "Driver Distracted", "userPrompt", "mid", Priority.MID, "steerRequired", "promptDistracted", 10, 0, 0)]
      [] e = "driverDistracted" ->  \* line 416
          "warning" :> [kind |-> "Alert", alert |-> Alert("DISENGAGE IMMEDIATELY", "Driver Distracted", "critical", "full", Priority.HIGH, "steerRequired", "warningImmediate", 10, 0, 0)]
      [] e = "preDriverUnresponsive" ->  \* line 424
          "warning" :> [kind |-> "Alert", alert |-> Alert("Touch Steering Wheel: No Face Detected", "", "normal", "small", Priority.LOW, "steerRequired", "none", 10, 75, 0)]
      [] e = "promptDriverUnresponsive" ->  \* line 432
          "warning" :> [kind |-> "Alert", alert |-> Alert("Touch Steering Wheel", "Driver Unresponsive", "userPrompt", "mid", Priority.MID, "steerRequired", "promptDistracted", 10, 0, 0)]
      [] e = "driverUnresponsive" ->  \* line 440
          "warning" :> [kind |-> "Alert", alert |-> Alert("DISENGAGE IMMEDIATELY", "Driver Unresponsive", "critical", "full", Priority.HIGH, "steerRequired", "warningImmediate", 10, 0, 0)]
      [] e = "manualRestart" ->  \* line 448
          "warning" :> [kind |-> "Alert", alert |-> Alert("TAKE CONTROL", "Resume Driving Manually", "userPrompt", "mid", Priority.LOW, "none", "none", 20, 0, 0)]
      [] e = "resumeRequired" ->  \* line 456
          "warning" :> [kind |-> "Alert", alert |-> Alert("STOPPED", "Press Resume to Go", "userPrompt", "mid", Priority.LOW, "none", "none", 20, 0, 0)]
      [] e = "belowSteerSpeed" ->  \* line 464
          "warning" :> [kind |-> "callback", fn |-> "below_steer_speed_alert", text |-> ""]
      [] e = "preLaneChangeLeft" ->  \* line 468
          "warning" :> [kind |-> "Alert", alert |-> Alert("Steer Left to Start Lane Change Once Safe", "", "normal", "small", Priority.LOW, "none", "none", 10, 75, 0)]
      [] e = "preLaneChangeRight" ->  \* line 476
          "warning" :> [kind |-> "Alert", alert |-> Alert("Steer Right to Start Lane Change Once Safe", "", "normal", "small", Priority.LOW, "none", "none", 10, 75, 0)]
      [] e = "laneChangeBlocked" ->  \* line 484
          "warning" :> [kind |-> "Alert", alert |-> Alert("Car Detected in Blindspot", "", "userPrompt", "small", Priority.LOW, "none", "prompt", 10, 0, 0)]
      [] e = "laneChange" ->  \* line 492
          "warning" :> [kind |-> "Alert", alert |-> Alert("Changing Lanes", "", "normal", "small", Priority.LOW, "none", "none", 10, 0, 0)]
      [] e = "steerSaturated" ->  \* line 500
          "warning" :> [kind |-> "Alert", alert |-> Alert("Take Control", "Turn Exceeds Steering Limit", "userPrompt", "mid", Priority.LOW, "steerRequired", "promptRepeat", 100, 0, 0)]
      [] e = "fanMalfunction" ->  \* line 509
          "permanent" :> [kind |-> "Alert", alert |-> NormalPermanentAlert("Fan Malfunction", "Contact Support", 20, Priority.LOWER, 0)]
      [] e = "cameraMalfunction" ->  \* line 514
          "permanent" :> [kind |-> "Alert", alert |-> NormalPermanentAlert("Camera Malfunction", "Contact Support", 20, Priority.LOWER, 0)]
      [] e = "gpsMalfunction" ->  \* line 519
          "permanent" :> [kind |-> "Alert", alert |-> NormalPermanentAlert("GPS Malfunction", "Contact Support", 20, Priority.LOWER, 0)]
      [] e = "localizerMalfunction" ->  \* line 526
          "permanent" :> [kind |-> "Alert", alert |-> NormalPermanentAlert("Sensor Malfunction", "Contact Support", 20, Priority.LOWER, 0)]
      [] e = "pcmEnable" ->  \* line 532
          "enable" :> [kind |-> "Alert", alert |-> EngagementAlert("engage")]
      [] e = "buttonEnable" ->  \* line 536
          "enable" :> [kind |-> "Alert", alert |-> EngagementAlert("engage")]
      [] e = "pcmDisable" ->  \* line 540
          "userDisable" :> [kind |-> "Alert", alert |-> EngagementAlert("disengage")]
      [] e = "buttonCancel" ->  \* line 544
          "userDisable" :> [kind |-> "Alert", alert |-> EngagementAlert("disengage")]
      [] e = "brakeHold" ->  \* line 548
          "userDisable" :> [kind |-> "Alert", alert |-> EngagementAlert("disengage")]
       @@ "noEntry" :> [kind |-> "Alert", alert |-> NoEntryAlert("Brake Hold Active", "none")]
      [] e = "parkBrake" ->  \* line 553
          "userDisable" :> [kind |-> "Alert", alert |-> EngagementAlert("disengage")]
       @@ "noEntry" :> [kind |-> "Alert", alert |-> NoEntryAlert("Parking Brake Engaged", "none")]
      [] e = "pedalPressed" ->  \* line 558
          "userDisable" :> [kind |-> "Alert", alert |-> EngagementAlert("disengage")]
       @@ "noEntry" :> [kind |-> "Alert", alert |-> NoEntryAlert("Pedal Pressed", "brakePressed")]
      [] e = "wrongCarMode" ->  \* line 564
          "userDisable" :> [kind |-> "Alert", alert |-> EngagementAlert("disengage")]
       @@ "noEntry" :> [kind |-> "callback", fn |-> "wrong_car_mode_alert", text |-> ""]
      [] e = "wrongCruiseMode" ->  \* line 569
          "userDisable" :> [kind |-> "Alert", alert |-> EngagementAlert("disengage")]
       @@ "noEntry" :> [kind |-> "Alert", alert |-> NoEntryAlert("Adaptive Cruise Disabled", "none")]
      [] e = "steerTempUnavailable" ->  \* line 574
          "softDisable" :> [kind |-> "callback", fn |-> "soft_disable_alert", text |-> "Steering Temporarily Unavailable"]
       @@ "noEntry" :> [kind |-> "Alert", alert |-> NoEntryAlert("Steering Temporarily Unavailable", "none")]
      [] e = "outOfSpace" ->  \* line 579
          "permanent" :> [kind |-> "Alert", alert |-> NormalPermanentAlert("Out of Storage", "", 20, Priority.LOWER, 0)]
       @@ "noEntry" :> [kind |-> "Alert", alert |-> NoEntryAlert("Out of Storage", "none")]
      [] e = "belowEngageSpeed" ->  \* line 584
          "noEntry" :> [kind |-> "callback", fn |-> "below_engage_speed_alert", text |-> ""]
      [] e = "sensorDataInvalid" ->  \* line 588
          "permanent" :> [kind |-> "Alert", alert |-> Alert("No Data from Device Sensors", "Reboot your Device", "normal", "mid", Priority.LOWER, "none", "none", 20, 0, 100)]
       @@ "noEntry" :> [kind |-> "Alert", alert |-> NoEntryAlert("No Data from Device Sensors", "none")]
      [] e = "noGps" ->  \* line 597
          "permanent" :> [kind |-> "callback", fn |-> "no_gps_alert", text |-> ""]
      [] e = "soundsUnavailable" ->  \* line 601
          "permanent" :> [kind |-> "Alert", alert |-> NormalPermanentAlert("Speaker not found", "Reboot your Device", 20, Priority.LOWER, 0)]
       @@ "noEntry" :> [kind |-> "Alert", alert |-> NoEntryAlert("Speaker not found", "none")]
      [] e = "tooDistracted" ->  \* line 606
          "noEntry" :> [kind |-> "Alert", alert |-> NoEntryAlert("Distraction Level Too High", "none")]
      [] e = "overheat" ->  \* line 610
          "permanent" :> [kind |-> "Alert", alert |-> NormalPermanentAlert("System Overheated", "", 20, Priority.LOWER, 0)]
       @@ "softDisable" :> [kind |-> "callback", fn |-> "soft_disable_alert", text |-> "System Overheated"]
       @@ "noEntry" :> [kind |-> "Alert", alert |-> NoEntryAlert("System Overheated", "none")]
      [] e = "wrongGear" ->  \* line 616
          "noEntry" :> [kind |-> "Alert", alert |-> NoEntryAlert("Gear not D", "none")]
      [] e = "calibrationInvalid" ->  \* line 626
          "permanent" :> [kind |-> "Alert", alert |-> NormalPermanentAlert("Calibration Invalid", "Remount Device and Recalibrate", 20, Priority.LOWER, 0)]
       @@ "softDisable" :> [kind |-> "callback", fn |-> "soft_disable_alert", text |-> "Calibration Invalid: Remount Device & Recalibrate"]
       @@ "noEntry" :> [kind |-> "Alert", alert |-> NoEntryAlert("Calibration Invalid: Remount Device & Recalibrate", "none")]
      [] e = "calibrationIncomplete" ->  \* line 632
          "permanent" :> [kind |-> "callback", fn |-> "calibration_incomplete_alert", text |-> ""]
       @@ "softDisable" :> [kind |-> "callback", fn |-> "soft_disable_alert", text |-> "Calibration in Progress"]
       @@ "noEntry" :> [kind |-> "Alert", alert |-> NoEntryAlert("Calibration in Progress", "none")]
      [] e = "doorOpen" ->  \* line 638
          "softDisable" :> [kind |-> "callback", fn |-> "user_soft_disable_alert", text |-> "Door Open"]
       @@ "noEntry" :> [kind |-> "Alert", alert |-> NoEntryAlert("Door Open", "none")]
      [] e = "seatbeltNotLatched" ->  \* line 643
          "softDisable" :> [kind |-> "callback", fn |-> "user_soft_disable_alert", text |-> "Seatbelt Unlatched"]
       @@ "noEntry" :> [kind |-> "Alert", alert |-> NoEntryAlert("Seatbelt Unlatched", "none")]
      [] e = "espDisabled" ->  \* line 648
          "softDisable" :> [kind |-> "callback", fn |-> "soft_disable_alert", text |-> "ESP Off"]
       @@ "noEntry" :> [kind |-> "Alert", alert |-> NoEntryAlert("ESP Off", "none")]
      [] e = "lowBattery" ->  \* line 653
          "softDisable" :> [kind |-> "callback", fn |-> "soft_disable_alert", text |-> "Low Battery"]
       @@ "noEntry" :> [kind |-> "Alert", alert |-> NoEntryAlert("Low Battery", "none")]
      [] e = "commIssue" ->  \* line 662
          "softDisable" :> [kind |-> "callback", fn |-> "soft_disable_alert", text |-> "Communication Issue between Processes"]
       @@ "noEntry" :> [kind |-> "Alert", alert |-> NoEntryAlert("Communication Issue between Processes", "none")]
      [] e = "processNotRunning" ->  \* line 668
          "noEntry" :> [kind |-> "Alert", alert |-> NoEntryAlert("System Malfunction: Reboot Your Device", "none")]
      [] e = "radarFault" ->  \* line 672
          "softDisable" :> [kind |-> "callback", fn |-> "soft_disable_alert", text |-> "Radar Error: Restart the Car"]
       @@ "noEntry" :> [kind |-> "Alert", alert |-> NoEntryAlert("Radar Error: Restart the Car", "none")]
      [] e = "modeldLagging" ->  \* line 680
          "softDisable" :> [kind |-> "callback", fn |-> "soft_disable_alert", text |-> "Driving model lagging"]
       @@ "noEntry" :> [kind |-> "Alert", alert |-> NoEntryAlert("Driving model lagging", "none")]
      [] e = "posenetInvalid" ->  \* line 690
          "softDisable" :> [kind |-> "callback", fn |-> "soft_disable_alert", text |-> "Model Output Uncertain"]
       @@ "noEntry" :> [kind |-> "Alert", alert |-> NoEntryAlert("Model Output Uncertain", "none")]
      [] e = "deviceFalling" ->  \* line 697
          "softDisable" :> [kind |-> "callback", fn |-> "soft_disable_alert", text |-> "Device Fell Off Mount"]
       @@ "noEntry" :> [kind |-> "Alert", alert |-> NoEntryAlert("Device Fell Off Mount", "none")]
      [] e = "lowMemory" ->  \* line 702
          "softDisable" :> [kind |-> "callback", fn |-> "soft_disable_alert", text |-> "Low Memory: Reboot Your Device"]
       @@ "permanent" :> [kind |-> "Alert", alert |-> NormalPermanentAlert("Low Memory", "Reboot your Device", 20, Priority.LOWER, 0)]
       @@ "noEntry" :> [kind |-> "Alert", alert |-> NoEntryAlert("Low Memory: Reboot Your Device", "none")]
      [] e = "highCpuUsage" ->  \* line 708
          "noEntry" :> [kind |-> "Alert", alert |-> NoEntryAlert("System Malfunction: Reboot Your Device", "none")]
      [] e = "accFaulted" ->  \* line 714
          "immediateDisable" :> [kind |-> "Alert", alert |-> ImmediateDisableAlert("Cruise Faulted")]
       @@ "permanent" :> [kind |-> "Alert", alert |-> NormalPermanentAlert("Cruise Faulted", "", 20, Priority.LOWER, 0)]
       @@ "noEntry" :> [kind |-> "Alert", alert |-> NoEntryAlert("Cruise Faulted", "none")]
      [] e = "controlsMismatch" ->  \* line 720
          "immediateDisable" :> [kind |-> "Alert", alert |-> ImmediateDisableAlert("Controls Mismatch")]
      [] e = "roadCameraError" ->  \* line 724
          "permanent" :> [kind |-> "Alert", alert |-> NormalPermanentAlert("Camera Error", "", 100, Priority.LOWER, 3000)]
      [] e = "driverCameraError" ->  \* line 730
          "permanent" :> [kind |-> "Alert", alert |-> NormalPermanentAlert("Camera Error", "", 100, Priority.LOWER, 3000)]
      [] e = "wideRoadCameraError" ->  \* line 736
          "permanent" :> [kind |-> "Alert", alert |-> NormalPermanentAlert("Camera Error", "", 100, Priority.LOWER, 3000)]
      [] e = "usbError" ->  \* line 744
          "softDisable" :> [kind |-> "callback", fn |-> "soft_disable_alert", text |-> "USB Error: Reboot Your Device"]
       @@ "permanent" :> [kind |-> "Alert", alert |-> NormalPermanentAlert("USB Error: Reboot Your Device", "", 20, Priority.LOWER, 0)]
       @@ "noEntry" :> [kind |-> "Alert", alert |-> NoEntryAlert("USB Error: Reboot Your Device", "none")]
      [] e = "canError" ->  \* line 754
          "immediateDisable" :> [kind |-> "Alert", alert |-> ImmediateDisableAlert("CAN Error: Check Connections")]
       @@ "permanent" :> [kind |-> "Alert", alert |-> Alert("CAN Error: Check Connections", "", "normal", "small", Priority.LOW, "none", "none", 100, 0, 100)]
       @@ "noEntry" :> [kind |-> "Alert", alert |-> NoEntryAlert("CAN Error: Check Connections", "none")]
      [] e = "steerUnavailable" ->  \* line 764
          "immediateDisable" :> [kind |-> "Alert", alert |-> ImmediateDisableAlert("LKAS Fault: Restart the Car")]
       @@ "permanent" :> [kind |-> "Alert", alert |-> NormalPermanentAlert("LKAS Fault: Restart the car to engage", "", 20, Priority.LOWER, 0)]
       @@ "noEntry" :> [kind |-> "Alert", alert |-> NoEntryAlert("LKAS Fault: Restart the Car", "none")]
      [] e = "brakeUnavailable" ->  \* line 770
          "immediateDisable" :> [kind |-> "Alert", alert |-> ImmediateDisableAlert("Cruise Fault: Restart the Car")]
       @@ "permanent" :> [kind |-> "Alert", alert |-> NormalPermanentAlert("Cruise Fault: Restart the car to engage", "", 20, Priority.LOWER, 0)]
       @@ "noEntry" :> [kind |-> "Alert", alert |-> NoEntryAlert("Cruise Fault: Restart the Car", "none")]
      [] e = "reverseGear" ->  \* line 776
          "permanent" :> [kind |-> "Alert", alert |-> Alert("Reverse\nGear", "", "normal", "full", Priority.LOWEST, "none", "none", 20, 0, 50)]
       @@ "noEntry" :> [kind |-> "Alert", alert |-> NoEntryAlert("Reverse Gear", "none")]
      [] e = "cruiseDisabled" ->  \* line 788
          "immediateDisable" :> [kind |-> "Alert", alert |-> ImmediateDisableAlert("Cruise Is Off")]
      [] e = "plannerError" ->  \* line 795
          "immediateDisable" :> [kind |-> "Alert", alert |-> ImmediateDisableAlert("Planner Solution Error")]
       @@ "noEntry" :> [kind |-> "Alert", alert |-> NoEntryAlert("Planner Solution Error", "none")]
      [] e = "relayMalfunction" ->  \* line 804
          "immediateDisable" :> [kind |-> "Alert", alert |-> ImmediateDisableAlert("Harness Malfunction")]
       @@ "permanent" :> [kind |-> "Alert", alert |-> NormalPermanentAlert("Harness Malfunction", "Check Hardware", 20, Priority.LOWER, 0)]
       @@ "noEntry" :> [kind |-> "Alert", alert |-> NoEntryAlert("Harness Malfunction", "none")]
      [] e = "noTarget" ->  \* line 810
          "immediateDisable" :> [kind |-> "Alert", alert |-> Alert("SDPilot Canceled", "No close lead car", "normal", "mid", Priority.HIGH, "none", "disengage", 300, 0, 0)]
       @@ "noEntry" :> [kind |-> "Alert", alert |-> NoEntryAlert("No Close Lead Car", "none")]
      [] e = "speedTooLow" ->  \* line 819
          "immediateDisable" :> [kind |-> "Alert", alert |-> Alert("SDPilot Canceled", "Speed too low", "normal", "mid", Priority.HIGH, "none", "disengage", 300, 0, 0)]
      [] e = "speedTooHigh" ->  \* line 828
          "warning" :> [kind |-> "Alert", alert |-> Alert("Speed Too High", "Model uncertain at this speed", "userPrompt", "mid", Priority.HIGH, "steerRequired", "promptRepeat", 400, 0, 0)]
       @@ "noEntry" :> [kind |-> "Alert", alert |-> NoEntryAlert("Slow down to engage", "none")]
      [] e = "lowSpeedLockout" ->  \* line 837
          "permanent" :> [kind |-> "Alert", alert |-> NormalPermanentAlert("Cruise Fault: Restart the car to engage", "", 20, Priority.LOWER, 0)]
       @@ "noEntry" :> [kind |-> "Alert", alert |-> NoEntryAlert("Cruise Fault: Restart the Car", "none")]]

\* the EventName enumerants: the catalog's keys and one enumerant that has no
\* catalog entry
UnknownEvent == "notInCatalog"

EventName == EVENTS_keys \cup {UnknownEvent}

\* EVENT_NAME = {v: k for k, v in EventName.schema.enumerants.items()}
EVENT_NAME == [v \in EventName |-> v]

\* EVENTS.get(e, {})
EVENTS_get(e) == IF e \in DOMAIN EVENTS THEN EVENTS[e] ELSE << >>

(***************************************************************************)
(* State.                                                                  *)
(*   events, static_events, events_prev : the fields of Events             *)
(*   stamps : the alert_type / event_type attributes of the Alert objects  *)
(*            stored in EVENTS, for the slots <<e, et>> whose attributes   *)
(*            have been assigned since construction (Alert.__init__ sets   *)
(*            them to "" and None)                                         *)
(*   ret    : the last operation, its arguments and what it returned       *)
(*   pc, reported, streak, prior : the control loop that drives the engine *)
(*            (phase of the cycle, identifiers reported in this cycle,     *)
(*            consecutive completed cycles in which each identifier was    *)
(*            reported, and that count one cycle earlier)                  *)
(*   surfaced : the slots <<e, et>> whose alert create_alerts returned in *)
(*            an earlier cycle, e having been reported in every cycle     *)
(*            since                                                       *)
(*   sequence : where the elements of the active list come from:           *)
(*            carried, the identifiers registered as static before the     *)
(*            last clear, in registration order, and reports, the pairs    *)
(*            <<e, static>> added since the last clear, in order           *)
(***************************************************************************)
VARIABLES events, static_events, events_prev, stamps, ret, pc, reported, streak, prior,
          surfaced, sequence

engine == <<events, static_events, events_prev>>

loop == <<pc, reported, streak, prior, surfaced, sequence>>

vars == <<events, static_events, events_prev, stamps, ret, pc, reported, streak, prior,
          surfaced, sequence>>

\* bounds
MaxEvents == 2
MaxAge == 1
MaxLoopAge == 51
MaxSoftDisableTime == 52

\* inputs of the unconstrained engine
ModelIds == {UnknownEvent, "stockFcw", "doorOpen", "reverseGear"}

\* the identifiers that are registered as static, each at most once
StaticIds == {UnknownEvent, "reverseGear"}

\* the event types Events.any is asked for
ModelAnyTypes == {ET.PERMANENT, ET.NO_ENTRY, ET.SOFT_DISABLE, ET.WARNING}

ModelEventTypes == {<<ET.PERMANENT>>, <<ET.NO_ENTRY>>, <<ET.SOFT_DISABLE, ET.NO_ENTRY>>}

\* inputs of the control loop
LoopIds == {"reverseGear", "fcw"}

LoopEventTypes == {<<ET.PERMANENT>>, <<ET.NO_ENTRY, ET.PERMANENT>>}

\* inputs of the soft-disable callbacks
SoftIds == {"doorOpen", "overheat"}

\* callback_args = [CP, sm, metric, soft_disable_time]
Context(soft_disable_time, axes) ==
  [CP |-> [minEnableSpeed |-> 0, minSteerSpeed |-> 0, carName |-> "mock"],
   sm |-> [liveCalibration |-> [calPerc |-> 0],
           peripheralState |-> [pandaType |-> "unknown"],
           testJoystick |-> [axes |-> axes]],
   metric |-> TRUE,
   soft_disable_time |-> soft_disable_time]

ModelContexts == {Context(t, << >>) : t \in {SoftDisableThreshold - 1, SoftDisableThreshold}}

LoopContexts == {Context(SoftDisableThreshold, << >>)}

SoftContexts == {Context(t, << >>) : t \in -1..MaxSoftDisableTime}

\* ret: the operation last executed, its arguments, whether it repeats the
\* operation before it (same operation, same arguments), whether it raised, and
\* the value it returned
NoReturn(op, args) == [op |-> op, args |-> args, again |-> FALSE, raised |-> FALSE, value |-> None]

\* Events.__init__
Init ==
  /\ events = << >>
  /\ static_events = << >>
  /\ events_prev = [k \in DOMAIN EVENTS |-> 0]
  /\ stamps = << >>
  /\ ret = NoReturn("__init__", << >>)
  /\ pc = "report"
  /\ reported = {}
  /\ streak = [k \in LoopIds |-> 0]
  /\ prior = [k \in LoopIds |-> 0]
  /\ surfaced = {}
  /\ sequence = [carried |-> << >>, reports |-> << >>]

\* "k in self.events"
InList(k, list) == \E i \in 1..Len(list) : list[i] = k

\* a bug that restarts the age of an identifier when it is added
add_resetting_age(event_name, static) ==
  /\ static_events' = IF static THEN Append(static_events, event_name) ELSE static_events
  /\ events' = Append(events, event_name)
  /\ events_prev' = [k \in DOMAIN events_prev |-> IF k = event_name THEN 0 ELSE events_prev[k]]
  /\ ret' = NoReturn("add", <<event_name, static>>)
  /\ UNCHANGED stamps

\* a bug that gives an identifier without age an age of 0 when it is added
add_registering_age(event_name, static) ==
  /\ static_events' = IF static THEN Append(static_events, event_name) ELSE static_events
  /\ events' = Append(events, event_name)
  /\ events_prev' = IF event_name \in DOMAIN events_prev THEN events_prev
                    ELSE (event_name :> 0) @@ events_prev
  /\ ret' = NoReturn("add", <<event_name, static>>)
  /\ UNCHANGED stamps

\* a bug that puts a static identifier in front of static_events
add_static_in_front(event_name, static) ==
  /\ static_events' = IF static THEN <<event_name>> \o static_events ELSE static_events
  /\ events' = Append(events, event_name)
  /\ ret' = NoReturn("add", <<event_name, static>>)
  /\ UNCHANGED <<events_prev, stamps>>

\* a bug that records a static identifier in static_events only, so that it
\* enters the active list with the next clear
add_static_only(event_name, static) ==
  /\ static_events' = IF static THEN Append(static_events, event_name) ELSE static_events
  /\ events' = IF static THEN events ELSE Append(events, event_name)
  /\ ret' = NoReturn("add", <<event_name, static>>)
  /\ UNCHANGED <<events_prev, stamps>>

\* a bug that puts the new identifier in front of the active list
add_in_front(event_name, static) ==
  /\ static_events' = IF static THEN Append(static_events, event_name) ELSE static_events
  /\ events' = <<event_name>> \o events
  /\ ret' = NoReturn("add", <<event_name, static>>)
  /\ UNCHANGED <<events_prev, stamps>>

\* Events.add
add(event_name, static) ==
  /\ static_events' = IF static THEN Append(static_events, event_name) ELSE static_events
  /\ events' = Append(events, event_name)
  /\ ret' = NoReturn("add", <<event_name, static>>)
  /\ UNCHANGED <<events_prev, stamps>>

\* a bug that keeps the age of an absent identifier instead of resetting it
clear_age_keeping(k, v, list) == IF InList(k, list) THEN v + 1 ELSE v

\* a bug that forgets to advance the age of a present identifier
clear_age_stuck(k, v, list) == IF InList(k, list) THEN v ELSE 0

\* a bug that advances the age once per occurrence of the identifier
clear_age_counting(k, v, list) ==
  IF InList(k, list) THEN v + Cardinality({i \in 1..Len(list) : list[i] = k}) ELSE 0

\* the dict comprehension of Events.clear, for one item (k, v)
clear_age(k, v, list) == IF InList(k, list) THEN v + 1 ELSE 0

\* a bug that forgets the static events on clear
clear_events_forgetting(static) == << >>

\* "self.static_events.copy()"
clear_events(static) == static

\* a bug that advances the ages and keeps the active list
clear_keeping_events ==
  /\ events_prev' = [k \in DOMAIN events_prev |-> clear_age(k, events_prev[k], events)]
  /\ ret' = NoReturn("clear", << >>)
  /\ UNCHANGED <<events, static_events, stamps>>

\* Events.clear
clear ==
  /\ events_prev' = [k \in DOMAIN events_prev |-> clear_age(k, events_prev[k], events)]
  /\ events' = clear_events(static_events)
  /\ ret' = NoReturn("clear", << >>)
  /\ UNCHANGED <<static_events, stamps>>

\* a bug that decides on the first identifier alone
any_loop_first(list, i, event_type) ==
  IF i > Len(list) THEN FALSE
  ELSE event_type \in DOMAIN EVENTS_get(list[i])

\* the loop of Events.any from position i, with its early return
RECURSIVE any_loop(_, _, _)
any_loop(list, i, event_type) ==
  IF i > Len(list) THEN FALSE
  ELSE IF event_type \in DOMAIN EVENTS_get(list[i]) THEN TRUE
  ELSE any_loop(list, i + 1, event_type)

\* Events.any
any(event_type) ==
  /\ ret' = [op |-> "any", args |-> <<event_type>>, again |-> FALSE, raised |-> FALSE,
             value |-> any_loop(events, 1, event_type)]
  /\ UNCHANGED <<events, static_events, events_prev, stamps>>

\* a catalog callback applied to *callback_args
call(slot, callback_args) ==
  LET CP == callback_args.CP
      sm == callback_args.sm
      metric == callback_args.metric
      soft_disable_time == callback_args.soft_disable_time
  IN  CASE slot.fn = "soft_disable_alert" -> soft_disable_alert(slot.text, CP, sm, metric, soft_disable_time)
        [] slot.fn = "user_soft_disable_alert" -> user_soft_disable_alert(slot.text, CP, sm, metric, soft_disable_time)
        [] slot.fn = "below_engage_speed_alert" -> below_engage_speed_alert(CP, sm, metric, soft_disable_time)
        [] slot.fn = "below_steer_speed_alert" -> below_steer_speed_alert(CP, sm, metric, soft_disable_time)
        [] slot.fn = "calibration_incomplete_alert" -> calibration_incomplete_alert(CP, sm, metric, soft_disable_time)
        [] slot.fn = "no_gps_alert" -> no_gps_alert(CP, sm, metric, soft_disable_time)
        [] slot.fn = "wrong_car_mode_alert" -> wrong_car_mode_alert(CP, sm, metric, soft_disable_time)
        [] slot.fn = "joystick_alert" -> joystick_alert(CP, sm, metric, soft_disable_time)

\* a bug that lets an alert through on the tick its delay is reached only
gate_at_delay_only(age, alert) == DT_CTRL * (age + 1) = alert.creation_delay

\* a bug that gates on the age without the current tick
gate_without_current_tick(age, alert) == DT_CTRL * age >= alert.creation_delay

\* "DT_CTRL * (self.events_prev[e] + 1) >= alert.creation_delay"
gate(age, alert) == DT_CTRL * (age + 1) >= alert.creation_delay

\* f"{EVENT_NAME[e]}/{et}"
alert_type_of(e, et) == EVENT_NAME[e] \o "/" \o et

\* the attributes create_alerts assigns to an alert it returns
stamp(e, et) == [alert_type |-> alert_type_of(e, et), event_type |-> et]

\* the Alert object stored in EVENTS[e][et], with its attributes as they are now
catalog_alert(st, e, et) ==
  LET a == EVENTS[e][et].alert
  IN  IF <<e, et>> \in DOMAIN st
      THEN [a EXCEPT !.alert_type = st[<<e, et>>].alert_type,
                     !.event_type = st[<<e, et>>].event_type]
      ELSE a

\* One step of the body of create_alerts' inner loop, for identifier e and
\* requested type et.  acc = [st, out, raised]: the catalog attributes, the
\* list ret (a catalog Alert is held by reference, as its slot; a callback's
\* Alert is a new object) and whether an exception has propagated.
create_alerts_step(acc, e, et, callback_args, prev) ==
  IF et \notin DOMAIN EVENTS[e] THEN acc
  ELSE LET slot == EVENTS[e][et]
       IN  IF slot.kind = "Alert"
           THEN IF gate(prev[e], slot.alert)
                THEN [acc EXCEPT !.st = (<<e, et>> :> stamp(e, et)) @@ acc.st,
                                 !.out = Append(acc.out, [catalog |-> TRUE, slot |-> <<e, et>>, alert |-> None])]
                ELSE acc
           ELSE LET r == call(slot, callback_args)
                IN  IF r.raised THEN [acc EXCEPT !.raised = TRUE]
                    ELSE IF gate(prev[e], r.alert)
                    THEN [acc EXCEPT !.out = Append(acc.out,
                            [catalog |-> FALSE, slot |-> <<e, et>>,
                             alert |-> [r.alert EXCEPT !.alert_type = stamp(e, et).alert_type,
                                                       !.event_type = stamp(e, et).event_type]])]
                    ELSE acc

\* "for et in event_types" from position j
RECURSIVE create_alerts_types(_, _, _, _, _, _)
create_alerts_types(acc, e, event_types, j, callback_args, prev) ==
  IF acc.raised \/ j > Len(event_types) THEN acc
  ELSE create_alerts_types(create_alerts_step(acc, e, event_types[j], callback_args, prev),
                           e, event_types, j + 1, callback_args, prev)

\* "for e in self.events" from position i; EVENTS[e] raises KeyError for an
\* identifier that is not a key of EVENTS
RECURSIVE create_alerts_events(_, _, _, _, _, _)
create_alerts_events(acc, list, i, event_types, callback_args, prev) ==
  IF acc.raised \/ i > Len(list) THEN acc
  ELSE IF list[i] \notin DOMAIN EVENTS THEN [acc EXCEPT !.raised = TRUE]
  ELSE create_alerts_events(create_alerts_types(acc, list[i], event_types, 1, callback_args, prev),
                            list, i + 1, event_types, callback_args, prev)

\* the Alert an element of ret is, as the caller reads it
deref(st, obj) ==
  IF obj.catalog THEN catalog_alert(st, obj.slot[1], obj.slot[2]) ELSE obj.alert

\* the outcome of Events.create_alerts: the catalog attributes after the call,
\* whether it raised, and the returned list
create_alerts_result(list, prev, st, event_types, callback_args) ==
  LET acc == create_alerts_events([st |-> st, out |-> << >>, raised |-> FALSE],
                                  list, 1, event_types, callback_args, prev)
  IN  [st |-> acc.st,
       raised |-> acc.raised,
       value |-> IF acc.raised THEN << >>
                 ELSE [i \in 1..Len(acc.out) |-> deref(acc.st, acc.out[i])]]

\* whether this call of create_alerts repeats the operation before it
Repeats(event_types, callback_args) ==
  ret.op = "create_alerts" /\ ret.args = <<event_types, callback_args>>

\* a bug that consumes the active list once its alerts are created
create_alerts_consuming(event_types, callback_args) ==
  LET r == create_alerts_result(events, events_prev, stamps, event_types, callback_args)
  IN  /\ stamps' = r.st
      /\ ret' = [op |-> "create_alerts", args |-> <<event_types, callback_args>>,
                 again |-> Repeats(event_types, callback_args),
                 raised |-> r.raised, value |-> r.value]
      /\ events' = static_events
      /\ UNCHANGED <<static_events, events_prev>>

\* Events.create_alerts
create_alerts(event_types, callback_args) ==
  LET r == create_alerts_result(events, events_prev, stamps, event_types, callback_args)
  IN  /\ stamps' = r.st
      /\ ret' = [op |-> "create_alerts", args |-> <<event_types, callback_args>>,
                 again |-> Repeats(event_types, callback_args),
                 raised |-> r.raised, value |-> r.value]
      /\ UNCHANGED <<events, static_events, events_prev>>

\* a message event e, read as e.name.raw
MsgEvent(name) == [name |-> [raw |-> name]]

\* Events.add_from_msg
add_from_msg(msg_events) ==
  /\ events' = events \o [i \in 1..Len(msg_events) |-> msg_events[i].name.raw]
  /\ ret' = NoReturn("add_from_msg", <<msg_events>>)
  /\ UNCHANGED <<static_events, events_prev, stamps>>

\* a bug that sets the noEntry flag from the warning type
CarEvent_flag_slip(event_name) ==
  [name |-> event_name,
   enable |-> ET.ENABLE \in DOMAIN EVENTS_get(event_name),
   noEntry |-> ET.WARNING \in DOMAIN EVENTS_get(event_name),
   warning |-> ET.WARNING \in DOMAIN EVENTS_get(event_name),
   userDisable |-> ET.USER_DISABLE \in DOMAIN EVENTS_get(event_name),
   softDisable |-> ET.SOFT_DISABLE \in DOMAIN EVENTS_get(event_name),
   immediateDisable |-> ET.IMMEDIATE_DISABLE \in DOMAIN EVENTS_get(event_name),
   preEnable |-> ET.PRE_ENABLE \in DOMAIN EVENTS_get(event_name),
   permanent |-> ET.PERMANENT \in DOMAIN EVENTS_get(event_name)]

\* car.CarEvent.new_message(), name assigned, one flag set per event type of
\* the identifier's catalog entry
CarEvent(event_name) ==
  [name |-> event_name,
   enable |-> ET.ENABLE \in DOMAIN EVENTS_get(event_name),
   noEntry |-> ET.NO_ENTRY \in DOMAIN EVENTS_get(event_name),
   warning |-> ET.WARNING \in DOMAIN EVENTS_get(event_name),
   userDisable |-> ET.USER_DISABLE \in DOMAIN EVENTS_get(event_name),
   softDisable |-> ET.SOFT_DISABLE \in DOMAIN EVENTS_get(event_name),
   immediateDisable |-> ET.IMMEDIATE_DISABLE \in DOMAIN EVENTS_get(event_name),
   preEnable |-> ET.PRE_ENABLE \in DOMAIN EVENTS_get(event_name),
   permanent |-> ET.PERMANENT \in DOMAIN EVENTS_get(event_name)]

\* the list Events.to_msg builds
to_msg_result(list) == [i \in 1..Len(list) |-> CarEvent(list[i])]

\* Events.to_msg
to_msg ==
  /\ ret' = [op |-> "to_msg", args |-> << >>, again |-> FALSE, raised |-> FALSE,
             value |-> to_msg_result(events)]
  /\ UNCHANGED <<events, static_events, events_prev, stamps>>

(***************************************************************************)
(* Spec: the engine's operations in any order, on ModelIds.                *)
(***************************************************************************)
Add ==
  /\ Len(events) < MaxEvents
  /\ \E e \in ModelIds, static \in BOOLEAN :
       /\ static => (e \in StaticIds /\ ~InList(e, static_events))
       /\ add(e, static)
  /\ UNCHANGED loop

AddFromMsg ==
  /\ \E msg_events \in {<<MsgEvent(a)>> : a \in ModelIds} \cup {<<MsgEvent(a), MsgEvent(b)>> : a, b \in ModelIds} :
       /\ Len(events) + Len(msg_events) <= MaxEvents
       /\ add_from_msg(msg_events)
  /\ UNCHANGED loop

Clear ==
  /\ \A i \in 1..Len(events) : events[i] \in DOMAIN events_prev => events_prev[events[i]] < MaxAge
  /\ clear
  /\ UNCHANGED loop

AnyType ==
  /\ \E event_type \in ModelAnyTypes : any(event_type)
  /\ UNCHANGED loop

CreateAlerts ==
  /\ \E event_types \in ModelEventTypes, callback_args \in ModelContexts :
       create_alerts(event_types, callback_args)
  /\ UNCHANGED loop

ToMsg ==
  /\ to_msg
  /\ UNCHANGED loop

Next ==
  \/ Add
  \/ AddFromMsg
  \/ Clear
  \/ AnyType
  \/ CreateAlerts
  \/ ToMsg

Spec == Init /\ [][Next]_vars

(***************************************************************************)
(* SpecLoop: the control loop.  One cycle reports the identifiers that are *)
(* active (each at most once), queries, and ends with Events.clear.        *)
(***************************************************************************)
\* an identifier stays reported for at most this many consecutive cycles
LoopAgeCap(e) == IF e = "reverseGear" THEN MaxLoopAge ELSE MaxAge

LoopReport ==
  /\ pc = "report"
  /\ \E e \in LoopIds \ reported :
       /\ events_prev[e] < LoopAgeCap(e)
       /\ add(e, FALSE)
       /\ reported' = reported \cup {e}
  /\ UNCHANGED <<pc, streak, prior, surfaced, sequence>>

LoopAnyType ==
  /\ pc' = "query"
  /\ \E event_type \in {ET.PERMANENT, ET.NO_ENTRY, ET.WARNING} : any(event_type)
  /\ UNCHANGED <<reported, streak, prior, surfaced, sequence>>

LoopCreateAlerts ==
  /\ pc' = "query"
  /\ \E event_types \in LoopEventTypes, callback_args \in LoopContexts :
       create_alerts(event_types, callback_args)
  /\ UNCHANGED <<reported, streak, prior, surfaced, sequence>>

LoopClear ==
  /\ clear
  /\ pc' = "report"
  /\ reported' = {}
  /\ streak' = [k \in LoopIds |-> IF k \in reported THEN streak[k] + 1 ELSE 0]
  /\ prior' = streak
  /\ UNCHANGED <<surfaced, sequence>>

NextLoop ==
  \/ LoopReport
  \/ LoopAnyType
  \/ LoopCreateAlerts
  \/ LoopClear

SpecLoop == Init /\ [][NextLoop]_vars

(***************************************************************************)
(* SpecSoftDisable: the soft-disable callbacks, for every                  *)
(* soft_disable_time of -1..MaxSoftDisableTime.                            *)
(***************************************************************************)
SoftAdd ==
  /\ Len(events) < MaxEvents
  /\ \E e \in SoftIds : add(e, FALSE)
  /\ UNCHANGED loop

SoftCreateAlerts ==
  /\ \E event_types \in {<<ET.SOFT_DISABLE>>, <<ET.NO_ENTRY, ET.SOFT_DISABLE>>}, callback_args \in SoftContexts :
       create_alerts(event_types, callback_args)
  /\ UNCHANGED loop

NextSoftDisable ==
  \/ SoftAdd
  \/ SoftCreateAlerts

SpecSoftDisable == Init /\ [][NextSoftDisable]_vars

(***************************************************************************)
(* Properties.                                                             *)
(***************************************************************************)
\* the elements of a list
Elements(list) == {list[i] : i \in 1..Len(list)}

\* the event types requested by the create_alerts call recorded in ret
Requested == Elements(ret.args[1])

\* the alert_type of a candidate of identifier e and type et
Named(e, et) == e \o "/" \o et

\* how many of the alerts returned by the recorded create_alerts call are
\* candidates of identifier e and type et
Count(e, et) ==
  Cardinality({i \in 1..Len(ret.value) :
                 ret.value[i].alert_type = Named(e, et) /\ ret.value[i].event_type = et})

\* the creation delay, in ticks, of the alert of slot (e, et) under callback_args
DelayTicks(e, et, callback_args) ==
  LET slot == EVENTS[e][et]
      a == IF slot.kind = "Alert" THEN slot.alert ELSE call(slot, callback_args).alert
  IN  a.creation_delay \div DT_CTRL

\* C1: an identifier that is not a key of EVENTS is inert while it is in the
\* active list: Events.any is true only because of some other identifier, and
\* Events.create_alerts does not raise and returns no candidate for it.
C1_UnknownIdentifierIsInert ==
  InList(UnknownEvent, events) =>
    /\ ret.op = "any" =>
         ret.value = (\E i \in 1..Len(events) :
                        /\ events[i] # UnknownEvent
                        /\ ret.args[1] \in DOMAIN EVENTS[events[i]])
    /\ ret.op = "create_alerts" =>
         /\ ~ret.raised
         /\ \A i \in 1..Len(ret.value), et \in EventTypes :
              ret.value[i].alert_type # Named(UnknownEvent, et)

\* C2: debounce.  In the control loop, an identifier reported in this cycle
\* and in the streak[e] cycles before it is in its tick streak[e] + 1; a fixed
\* alert of it with a creation delay of D >= 1 ticks is returned by
\* create_alerts not at all on ticks 1..D-1 and exactly once on tick D and on
\* every later tick.
C2_Debounce ==
  ret.op = "create_alerts" =>
    \A e \in reported : \A et \in Requested \cap DOMAIN EVENTS[e] :
      (EVENTS[e][et].kind = "Alert" /\ DelayTicks(e, et, ret.args[2]) >= 1) =>
        Count(e, et) = IF streak[e] + 1 >= DelayTicks(e, et, ret.args[2]) THEN 1 ELSE 0

\* C2 witness: reverseGear's permanent alert (0.5 s, 50 ticks) surfaces once on
\* the 50th consecutive tick.
C2_Witness ==
  /\ ret.op = "create_alerts"
  /\ "reverseGear" \in reported
  /\ streak["reverseGear"] + 1 = 50
  /\ ET.PERMANENT \in Requested
  /\ Count("reverseGear", ET.PERMANENT) = 1

\* C3: debounce reset.  An identifier that is reported again after one cycle
\* of absence is evaluated with age 0 whatever the length of its earlier run:
\* the age of a reported identifier is the number of consecutive cycles it
\* has been reported before this one, so a delayed alert of it is returned only
\* from the D-th consecutive tick after it reappeared.
C3_DebounceReset ==
  \A e \in reported :
    /\ events_prev[e] = streak[e]
    /\ (prior[e] >= 1 /\ streak[e] = 0) => events_prev[e] = 0
    /\ ret.op = "create_alerts" =>
         \A et \in Requested \cap DOMAIN EVENTS[e] :
           (EVENTS[e][et].kind = "Alert" /\ Count(e, et) >= 1) =>
             streak[e] + 1 >= DelayTicks(e, et, ret.args[2])

\* C3 witness: reverseGear was reported for at least 50 cycles (its permanent
\* alert had surfaced), was absent for one cycle, is reported again and its
\* permanent alert is not returned.
C3_Witness ==
  /\ "reverseGear" \in reported
  /\ prior["reverseGear"] >= 50
  /\ streak["reverseGear"] = 0
  /\ events_prev["reverseGear"] = 0
  /\ ret.op = "create_alerts"
  /\ ET.PERMANENT \in Requested
  /\ Count("reverseGear", ET.PERMANENT) = 0

\* C4: sticky persistence.  Every identifier added with static=True is in the
\* active list in every state, and the queries see it: to_msg has a record
\* for it, any is true for each of its types, and create_alerts, when it
\* returns, returns its fixed alerts that have no creation delay.
C4_StickyPersistence ==
  \A s \in Elements(static_events) :
    /\ InList(s, events)
    /\ ret.op = "to_msg" => \E i \in 1..Len(ret.value) : ret.value[i].name = s
    /\ (ret.op = "any" /\ s \in EVENTS_keys /\ ret.args[1] \in DOMAIN EVENTS[s]) => ret.value
    /\ (ret.op = "create_alerts" /\ ~ret.raised /\ s \in EVENTS_keys) =>
         \A et \in Requested \cap DOMAIN EVENTS[s] :
           (EVENTS[s][et].kind = "Alert" /\ DelayTicks(s, et, ret.args[2]) = 0) =>
             Count(s, et) >= 1

\* C4 witness: a static identifier that was registered once, has been through
\* a clear and is the only active identifier; to_msg reports it.
C4_Witness ==
  /\ static_events = <<"reverseGear">>
  /\ events = <<"reverseGear">>
  /\ events_prev["reverseGear"] >= 1
  /\ ret.op = "to_msg"
  /\ ret.value[1].name = "reverseGear"

\* the candidates (identifier, type) that pass the gate of create_alerts
Expected ==
  {<<e, et>> \in (Elements(events) \cap EVENTS_keys) \X Requested :
     /\ et \in DOMAIN EVENTS[e]
     /\ events_prev[e] + 1 >= DelayTicks(e, et, ret.args[2])}

\* C5: create_alerts returns exactly the candidates (e, et) with e in the
\* active list, et requested, et a type of e's catalog entry and
\* age + 1 >= creation delay in ticks, each stamped with alert_type
\* "<event name>/<et>" and event_type et.
C5_ExactCandidates ==
  ret.op = "create_alerts" =>
    {<<ret.value[i].alert_type, ret.value[i].event_type>> : i \in 1..Len(ret.value)}
      = {<<Named(c[1], c[2]), c[2]>> : c \in Expected}

\* C6: a create_alerts call that repeats the call before it returns what that
\* call returned.
C6_Idempotence ==
  [][(ret.op = "create_alerts" /\ ret'.op = "create_alerts" /\ ret'.args = ret.args) =>
       (ret'.raised = ret.raised /\ ret'.value = ret.value)]_vars

\* C6 witness: a repeated create_alerts call that returned alerts.
C6_Witness ==
  /\ ret.op = "create_alerts"
  /\ ret.again
  /\ Len(ret.value) >= 2

\* C7: add, add_from_msg, any, create_alerts and to_msg leave events_prev
\* unchanged; any, create_alerts and to_msg leave events and static_events
\* unchanged as well.
C7_OnlyClearChangesAge ==
  [][/\ ret'.op \in {"add", "add_from_msg", "any", "create_alerts", "to_msg"} =>
          events_prev' = events_prev
     /\ ret'.op \in {"any", "create_alerts", "to_msg"} =>
          (events' = events /\ static_events' = static_events)]_vars

\* C7 witness: create_alerts has returned an alert of an identifier whose age
\* is not 0.
C7_Witness ==
  /\ ret.op = "create_alerts"
  /\ Len(ret.value) >= 1
  /\ \E e \in Elements(events) \cap EVENTS_keys : events_prev[e] >= 1

\* C8: any(event_type) is true iff some identifier of the active list has
\* event_type as a key of its catalog entry; an identifier with an empty or
\* missing entry contributes nothing.
C8_AnyIffSomeType ==
  ret.op = "any" =>
    ret.value = (\E e \in Elements(events) :
                   e \in EVENTS_keys /\ ret.args[1] \in DOMAIN EVENTS[e])

\* C8 witness: any is true because of the second identifier; the first has an
\* empty catalog entry.
C8_Witness ==
  /\ ret.op = "any"
  /\ ret.value
  /\ Len(events) = 2
  /\ events[1] = "stockFcw"

\* C9: to_msg returns one record per identifier of the active list, in order,
\* carrying the identifier and, for each event type, a flag that is set iff
\* the type is a key of the identifier's catalog entry.
C9_WireEvents ==
  ret.op = "to_msg" =>
    /\ Len(ret.value) = Len(events)
    /\ \A i \in 1..Len(events) :
         /\ ret.value[i].name = events[i]
         /\ \A et \in EventTypes :
              ret.value[i][et] = (events[i] \in EVENTS_keys /\ et \in DOMAIN EVENTS[events[i]])

\* C9 witness: two records, reverseGear with permanent and noEntry set, then
\* an identifier without catalog entry.
C9_Witness ==
  /\ ret.op = "to_msg"
  /\ Len(ret.value) = 2
  /\ ret.value[1].name = "reverseGear"
  /\ ret.value[1].permanent
  /\ ret.value[1].noEntry
  /\ ret.value[2].name = UnknownEvent

\* C10: the alert of a softDisable slot (a soft_disable_alert or
\* user_soft_disable_alert callback) has HIGHEST priority and critical status
\* when soft_disable_time < int(0.5 / DT_CTRL) = 50, and MID priority and
\* userPrompt status otherwise.
C10_SoftDisableEscalation ==
  ret.op = "create_alerts" =>
    \A i \in 1..Len(ret.value) :
      ret.value[i].event_type = ET.SOFT_DISABLE =>
        IF ret.args[2].soft_disable_time < 50
        THEN ret.value[i].priority = 5 /\ ret.value[i].alert_status = "critical"
        ELSE ret.value[i].priority = 3 /\ ret.value[i].alert_status = "userPrompt"

\* C10 witness: at the threshold itself both callbacks return the soft alert.
C10_Witness ==
  /\ ret.op = "create_alerts"
  /\ ret.args[2].soft_disable_time = 50
  /\ Len(ret.value) = 2
  /\ ret.value[1].alert_type = "doorOpen/softDisable"
  /\ ret.value[1].priority = 3
  /\ ret.value[2].alert_type = "overheat/softDisable"
  /\ ret.value[2].priority = 3

\* ---------------------------------------------------------------------------
\* Arbitration.  The controller picks one alert from the sequence returned by
\* create_alerts: it walks the sequence in order and replaces its current
\* choice only by a candidate that compares greater (Alert.__gt__).
\* ---------------------------------------------------------------------------

\* number of identifiers reported in one tick of the arbitration scenario
MaxArbEvents == 3

\* identifiers whose warning alerts have LOW, HIGH, MID and HIGH priority
ArbIds == {"preDriverDistracted", "driverDistracted", "promptDriverDistracted",
           "driverUnresponsive"}

\* the walk over candidates[i..]: current is the index of the choice so far
RECURSIVE select_loop(_, _, _)
select_loop(candidates, i, current) ==
  IF i > Len(candidates) THEN current
  ELSE select_loop(candidates, i + 1,
                   IF Alert_gt(candidates[i], candidates[current]) THEN i ELSE current)

\* index of the alert selected from a non-empty candidate sequence
select_alert(candidates) == select_loop(candidates, 2, 1)

ArbAdd ==
  /\ Len(events) < MaxArbEvents
  /\ \E e \in ArbIds : add(e, FALSE)
  /\ UNCHANGED loop

ArbCreateAlerts ==
  /\ create_alerts(<<ET.WARNING>>, Context(50, << >>))
  /\ UNCHANGED loop

\* the controller selects among the candidates the last create_alerts returned
ArbSelect ==
  /\ ret.op = "create_alerts"
  /\ ~ret.raised
  /\ Len(ret.value) >= 1
  /\ ret' = [op |-> "select", args |-> <<ret.value>>, again |-> FALSE,
             raised |-> FALSE, value |-> select_alert(ret.value)]
  /\ UNCHANGED <<engine, stamps, loop>>

NextArbitration ==
  \/ ArbAdd
  \/ ArbCreateAlerts
  \/ ArbSelect

SpecArbitration == Init /\ [][NextArbitration]_vars

\* the priorities of a candidate sequence, every other field dropped
PrioritiesOnly(candidates) ==
  [i \in 1..Len(candidates) |-> [priority |-> candidates[i].priority]]

\* C11: the alert selected from a non-empty candidate sequence has a priority
\* greater than or equal to that of every candidate, it is the earliest of the
\* candidates of maximal priority, and the choice is the same for any
\* candidates with the same priorities.
C11_ArbitrationByPriority ==
  ret.op = "select" =>
    LET candidates == ret.args[1]
        chosen == ret.value
    IN  /\ chosen \in 1..Len(candidates)
        /\ \A i \in 1..Len(candidates) :
             /\ candidates[chosen].priority >= candidates[i].priority
             /\ candidates[i].priority = candidates[chosen].priority => chosen <= i
        /\ chosen = select_alert(PrioritiesOnly(candidates))

\* C11 witness: candidates of priority LOW, HIGH, HIGH from three identifiers;
\* the first of the two HIGH alerts is selected.
C11_Witness ==
  /\ ret.op = "select"
  /\ Len(ret.args[1]) = 3
  /\ ret.args[1][1].alert_type = "preDriverDistracted/warning"
  /\ ret.args[1][2].alert_type = "driverDistracted/warning"
  /\ ret.args[1][3].alert_type = "driverUnresponsive/warning"
  /\ ret.args[1][2].priority = 4
  /\ ret.args[1][3].priority = 4
  /\ ret.value = 2

\* ---------------------------------------------------------------------------
\* Ticks.  Identifiers are added, static or not and any number of times, and
\* the tick is advanced by clear.
\* ---------------------------------------------------------------------------

\* length of the active list and number of ticks an identifier stays present
MaxTickEvents == 3
MaxTickAge == 3

TickIds == {"reverseGear", "doorOpen"}

TickAdd ==
  /\ Len(events) < MaxTickEvents
  /\ \E e \in TickIds, static \in BOOLEAN : add(e, static)
  /\ UNCHANGED loop

TickClear ==
  /\ \A i \in 1..Len(events) : events_prev[events[i]] < MaxTickAge
  /\ clear
  /\ UNCHANGED loop

NextTick ==
  \/ TickAdd
  \/ TickClear

SpecTick == Init /\ [][NextTick]_vars

\* C12: clear gives every catalog identifier its new age in one step: the old
\* age plus 1 when the identifier occurs at least once in the active list at
\* the time of the call, however often it occurs, and 0 otherwise.
C12_ClearUpdatesEveryAge ==
  [][ret'.op = "clear" =>
       \A k \in DOMAIN EVENTS :
         events_prev'[k] = IF InList(k, events) THEN events_prev[k] + 1 ELSE 0]_vars

\* C12 witness: reverseGear was registered static twice before the only clear
\* that counted it, so it occurred twice at that call, and its age is 1; the
\* absent doorOpen has age 0.
C12_Witness ==
  /\ ret.op = "clear"
  /\ static_events = <<"reverseGear", "reverseGear">>
  /\ events_prev["reverseGear"] = 1
  /\ events_prev["doorOpen"] = 0

\* ---------------------------------------------------------------------------
\* Duplicates, order and the catalog objects.
\* ---------------------------------------------------------------------------

\* the list with every identifier kept at its first occurrence only
RECURSIVE Once(_)
Once(list) ==
  IF list = << >> THEN << >>
  ELSE LET front == Once(SubSeq(list, 1, Len(list) - 1))
           last == list[Len(list)]
       IN  IF InList(last, front) THEN front ELSE Append(front, last)

\* C13: when a catalog identifier occurs more than once in the active list,
\* create_alerts returns at most one candidate per identifier and requested
\* event type, and returns what it returns for the list with the identifier
\* occurring once.
C13_DuplicatesSinglePresence ==
  ret.op = "create_alerts" =>
    /\ \A e \in Elements(events) \cap DOMAIN EVENTS : \A et \in Requested : Count(e, et) <= 1
    /\ LET once == create_alerts_result(Once(events), events_prev, stamps,
                                        ret.args[1], ret.args[2])
       IN  ret.raised = once.raised /\ ret.value = once.value

\* Order.  Identifiers are added, static or not, each at most once between two
\* clears; reported holds the identifiers added since the last clear.

MaxOrderStatic == 2
MaxOrderAge == 1

OrderIds == {UnknownEvent, "reverseGear", "doorOpen"}

\* the identifiers of a sequence of reports <<e, static>>
Names(reports) == [i \in 1..Len(reports) |-> reports[i][1]]

IsStaticReport(report) == report[2]

\* the reports that registered their identifier as static
StaticReports(reports) == SelectSeq(reports, IsStaticReport)

OrderAdd ==
  /\ \E e \in OrderIds \ reported, static \in BOOLEAN :
       /\ static => Len(static_events) < MaxOrderStatic
       /\ add(e, static)
       /\ reported' = reported \cup {e}
       /\ sequence' = [sequence EXCEPT !.reports = Append(@, <<e, static>>)]
  /\ UNCHANGED <<pc, streak, prior, surfaced>>

OrderClear ==
  /\ \A i \in 1..Len(events) : events[i] \in DOMAIN events_prev => events_prev[events[i]] < MaxOrderAge
  /\ clear
  /\ reported' = {}
  /\ sequence' = [carried |-> sequence.carried \o Names(StaticReports(sequence.reports)),
                   reports |-> << >>]
  /\ UNCHANGED <<pc, streak, prior, surfaced>>

OrderCreateAlerts ==
  /\ \E event_types \in {<<ET.NO_ENTRY>>, <<ET.NO_ENTRY, ET.PERMANENT>>} :
       create_alerts(event_types, Context(50, << >>))
  /\ UNCHANGED loop

OrderToMsg ==
  /\ to_msg
  /\ UNCHANGED loop

NextOrder ==
  \/ OrderAdd
  \/ OrderClear
  \/ OrderCreateAlerts
  \/ OrderToMsg

SpecOrder == Init /\ [][NextOrder]_vars

\* the identifier a returned alert is a candidate of
CandidateOf(alert) == CHOOSE e \in DOMAIN EVENTS : \E et \in EventTypes : alert.alert_type = Named(e, et)

\* identifiers in static_events, and identifiers reported that are not
Sticky == Elements(static_events)
NonSticky == Elements(events) \ Elements(static_events)

\* C14 as claimed: in the result of create_alerts and of to_msg every entry of
\* a sticky identifier follows every entry of a non-sticky identifier reported
\* in the same tick.
C14_StickyAfterActive ==
  /\ ret.op = "create_alerts" =>
       \A i, j \in 1..Len(ret.value) :
         (CandidateOf(ret.value[i]) \in Sticky /\ CandidateOf(ret.value[j]) \in NonSticky) => j < i
  /\ ret.op = "to_msg" =>
       \A i, j \in 1..Len(ret.value) :
         (ret.value[i].name \in Sticky /\ ret.value[j].name \in NonSticky) => j < i

\* the alerts create_alerts returns for each element of list[i..] alone, in order
RECURSIVE PerIdentifier(_, _, _, _)
PerIdentifier(list, i, event_types, callback_args) ==
  IF i > Len(list) THEN << >>
  ELSE create_alerts_result(<<list[i]>>, events_prev, stamps, event_types, callback_args).value
         \o PerIdentifier(list, i + 1, event_types, callback_args)

\* C14 amended: the active list is the identifiers that were sticky at the
\* last clear, in registration order, followed by the identifiers reported
\* since, sticky or not, in the order they were reported; create_alerts returns
\* the candidates of the carried-over sticky entries first, then the candidates
\* of the identifiers reported in the tick, each group in that order, so every
\* candidate of a carried-over entry precedes every candidate of an identifier
\* reported in the tick; to_msg returns the records in the same order.
C14_StickyFirst ==
  LET carried == sequence.carried
      current == Names(sequence.reports)
  IN  /\ events = carried \o current
      /\ (ret.op = "create_alerts" /\ ~ret.raised) =>
           LET first == PerIdentifier(carried, 1, ret.args[1], ret.args[2])
               later == PerIdentifier(current, 1, ret.args[1], ret.args[2])
           IN  /\ ret.value = first \o later
               /\ \A i \in 1..Len(first) : \A j \in Len(first) + 1 .. Len(ret.value) :
                    /\ i < j
                    /\ InList(CandidateOf(ret.value[i]), carried)
                    /\ InList(CandidateOf(ret.value[j]), current)
      /\ ret.op = "to_msg" =>
           [i \in 1..Len(ret.value) |-> ret.value[i].name] = carried \o current

\* C14 witness: reverseGear was sticky at the last clear, doorOpen was reported
\* after the clear and reverseGear was reported again after doorOpen; the
\* candidate of the carried-over reverseGear comes first, that of doorOpen
\* second and that of the reverseGear reported in the tick last.
C14_Witness ==
  /\ ret.op = "create_alerts"
  /\ static_events = <<"reverseGear">>
  /\ sequence.carried = <<"reverseGear">>
  /\ Names(sequence.reports) = <<"doorOpen", "reverseGear">>
  /\ Len(ret.value) = 3
  /\ ret.value[1].alert_type = "reverseGear/noEntry"
  /\ ret.value[2].alert_type = "doorOpen/noEntry"
  /\ ret.value[3].alert_type = "reverseGear/noEntry"

\* C15: every Alert object stored in EVENTS has the field values it was
\* constructed with, alert_type "" and event_type None included, whatever
\* operations have been performed.
C15_CatalogNeverMutated ==
  \A e \in DOMAIN EVENTS : \A et \in DOMAIN EVENTS[e] :
    EVENTS[e][et].kind = "Alert" => catalog_alert(stamps, e, et) = EVENTS[e][et].alert

\* ---------------------------------------------------------------------------
\* The control cycle in the order report, clear, query: the identifiers of the
\* cycle are added, then clear is called once, then the queries are made.
\* reported holds the identifiers added in the current cycle.
\* ---------------------------------------------------------------------------

MaxProtocolAge == 2

ProtocolIds == {"doorOpen", "reverseGear"}

\* an add of the current cycle, or the first add of the next one
ProtocolReport ==
  /\ \E e \in ProtocolIds :
       /\ pc = "report" => e \notin reported
       /\ add(e, FALSE)
       /\ reported' = IF pc = "report" THEN reported \cup {e} ELSE {e}
  /\ pc' = "report"
  /\ UNCHANGED <<streak, prior, surfaced, sequence>>

ProtocolClear ==
  /\ pc = "report"
  /\ \A i \in 1..Len(events) : events_prev[events[i]] < MaxProtocolAge
  /\ clear
  /\ pc' = "query"
  /\ UNCHANGED <<reported, streak, prior, surfaced, sequence>>

ProtocolAnyType ==
  /\ pc = "query"
  /\ \E event_type \in ModelAnyTypes : any(event_type)
  /\ UNCHANGED loop

ProtocolCreateAlerts ==
  /\ pc = "query"
  /\ \E event_types \in ModelEventTypes : create_alerts(event_types, Context(50, << >>))
  /\ UNCHANGED loop

NextProtocol ==
  \/ ProtocolReport
  \/ ProtocolClear
  \/ ProtocolAnyType
  \/ ProtocolCreateAlerts

SpecProtocol == Init /\ [][NextProtocol]_vars

\* C16: in a cycle run as add, clear, query, create_alerts returns a candidate
\* for every identifier added in the cycle and every requested type of it
\* whose alert has no creation delay, and any is true for every type of an
\* identifier added in the cycle.
C16_TickProtocol ==
  pc = "query" =>
    /\ ret.op = "create_alerts" =>
         \A e \in reported : \A et \in Requested \cap DOMAIN EVENTS[e] :
           DelayTicks(e, et, ret.args[2]) = 0 => Count(e, et) >= 1
    /\ ret.op = "any" =>
         \A e \in reported : ret.args[1] \in DOMAIN EVENTS[e] => ret.value = TRUE

\* C17 as claimed: every catalog identifier that is not in the active list has
\* age 0.
C17_AgeZeroWhenInactive ==
  \A k \in DOMAIN EVENTS : ~InList(k, events) => events_prev[k] = 0

\* whether k was in the active list when clear was last called: in the control
\* cycle that is when k was reported in the cycle that clear closed
PresentAtClear(k) == k \in LoopIds /\ streak[k] >= 1

\* C17 amended: a catalog identifier has age 0 exactly when it was not in the
\* active list at the last clear (or clear has not been called); an identifier
\* that was in it keeps its age, also while it is not in the current list.
C17_AgeZeroWhenAbsentAtClear ==
  \A k \in DOMAIN EVENTS : (events_prev[k] = 0) <=> ~PresentAtClear(k)

\* C17 witness: after a clear, fcw, reported before but not in the cycle just
\* closed, has age 0, and reverseGear, reported in the cycle just closed, has
\* a non-zero age although the active list no longer holds it.
C17_Witness ==
  /\ ret.op = "clear"
  /\ prior["fcw"] >= 1
  /\ streak["fcw"] = 0
  /\ events_prev["fcw"] = 0
  /\ streak["reverseGear"] >= 1
  /\ ~InList("reverseGear", events)
  /\ events_prev["reverseGear"] >= 1

\* ---------------------------------------------------------------------------
\* Joystick mode: create_alerts with joystickDebug active and axes lists of
\* every length up to MaxAxes in the callback arguments.
\* ---------------------------------------------------------------------------

MaxAxes == 3

\* axis values, in hundredths
AxisValues == {0, 50}

JoystickIds == {"joystickDebug", "doorOpen"}

JoystickContexts ==
  {Context(SoftDisableThreshold, axes) :
     axes \in UNION {[1..n -> AxisValues] : n \in 0..MaxAxes}}

JoystickAdd ==
  /\ Len(events) < MaxEvents
  /\ \E e \in JoystickIds : add(e, FALSE)
  /\ UNCHANGED loop

JoystickCreateAlerts ==
  /\ \E event_types \in {<<ET.WARNING>>, <<ET.NO_ENTRY, ET.WARNING>>}, callback_args \in JoystickContexts :
       create_alerts(event_types, callback_args)
  /\ UNCHANGED loop

NextJoystick ==
  \/ JoystickAdd
  \/ JoystickCreateAlerts

SpecJoystick == Init /\ [][NextJoystick]_vars

\* the axis value at position i, 0 when the list is shorter
AxisOrZero(axes, i) == IF i <= Len(axes) THEN axes[i] ELSE 0

\* C18: with joystickDebug active and the warning type requested,
\* create_alerts does not raise, whatever the length of the axes list, and
\* returns the joystick alert with 0 in the place of every missing axis value.
C18_MissingAxesNeverAbort ==
  (ret.op = "create_alerts" /\ InList("joystickDebug", events) /\ ET.WARNING \in Requested) =>
    /\ ~ret.raised
    /\ \E i \in 1..Len(ret.value) :
         /\ ret.value[i].alert_type = "joystickDebug/warning"
         /\ ret.value[i].alert_text_2 =
              "Gas: " \o ToString(AxisOrZero(ret.args[2].sm.testJoystick.axes, 1))
                \o "%, Steer: " \o ToString(AxisOrZero(ret.args[2].sm.testJoystick.axes, 2)) \o "%"

\* C19: right after clear the active list is the static list, element by
\* element, so an identifier that was added before the clear and is not static
\* is not carried over.
C19_NoCarryOver ==
  ret.op = "clear" => events = static_events

\* C19 witness: doorOpen was in the active list when clear was called (its age
\* is 1) and is not in it afterwards; the static reverseGear is.
C19_Witness ==
  /\ ret.op = "clear"
  /\ events_prev["doorOpen"] = 1
  /\ static_events = <<"reverseGear">>
  /\ events = <<"reverseGear">>

\* C20: every clear increases the age of a catalog identifier that is in
\* static_events by exactly 1, and no other operation changes it, so the age
\* of a static identifier never decreases and never returns to 0.
C20_StickyAgeNeverReset ==
  [][\A k \in DOMAIN EVENTS :
       InList(k, static_events) =>
         events_prev'[k] = IF ret'.op = "clear" THEN events_prev[k] + 1 ELSE events_prev[k]]_vars

\* C20 witness: the static reverseGear has reached age 3 by a clear.
C20_Witness ==
  /\ ret.op = "clear"
  /\ InList("reverseGear", static_events)
  /\ events_prev["reverseGear"] = 3

\* ---------------------------------------------------------------------------
\* The static list and the ages.
\* ---------------------------------------------------------------------------

\* whether s[i..] can be obtained from t[j..] by leaving elements out
RECURSIVE IsSubsequenceFrom(_, _, _, _)
IsSubsequenceFrom(s, i, t, j) ==
  IF i > Len(s) THEN TRUE
  ELSE IF j > Len(t) THEN FALSE
  ELSE IF s[i] = t[j] THEN IsSubsequenceFrom(s, i + 1, t, j + 1)
  ELSE IsSubsequenceFrom(s, i, t, j + 1)

IsSubsequence(s, t) == IsSubsequenceFrom(s, 1, t, 1)

\* C21: static_events is an order-preserving subsequence of events before and
\* after every operation, and an operation that changes static_events is an
\* add with static=True, which appends its identifier to it.
C21_StickyAppendOnly ==
  [][/\ IsSubsequence(static_events, events)
     /\ IsSubsequence(static_events', events')
     /\ static_events' # static_events =>
          /\ ret'.op = "add"
          /\ ret'.args[2] = TRUE
          /\ static_events' = Append(static_events, ret'.args[1])]_vars

\* C21 witness: reverseGear was added static after doorOpen; the static list
\* is a subsequence of the active list that is not its beginning.
C21_Witness ==
  /\ ret.op = "add"
  /\ ret.args = <<"reverseGear", TRUE>>
  /\ static_events = <<"reverseGear">>
  /\ events = <<"doorOpen", "reverseGear">>

\* the keys of events_prev are the catalog keys and its values are naturals
AgeDomainAndRange(prev) ==
  /\ DOMAIN prev = DOMAIN EVENTS
  /\ \A k \in DOMAIN prev : prev[k] \in Nat

\* C22: before and after every operation the keys of events_prev are exactly
\* the keys of EVENTS and its values are integers >= 0; all values are 0 after
\* construction; and an age of 0 stays 0 over every operation that is not
\* performed with the identifier in the active list, so an identifier that
\* was never in the active list at a clear has age 0.
C22_AgeDomainAndRange ==
  [][/\ AgeDomainAndRange(events_prev)
     /\ AgeDomainAndRange(events_prev')
     /\ ret.op = "__init__" => \A k \in DOMAIN EVENTS : events_prev[k] = 0
     /\ \A k \in DOMAIN EVENTS :
          (events_prev[k] = 0 /\ (~InList(k, events) \/ ret'.op # "clear")) => events_prev'[k] = 0]_vars

\* C22 witness: an identifier without catalog entry was added static and a
\* clear has counted doorOpen; reverseGear, not in the list at the clear, has
\* age 0.
C22_Witness ==
  /\ ret.op = "clear"
  /\ static_events = <<UnknownEvent>>
  /\ events = <<UnknownEvent>>
  /\ events_prev["doorOpen"] = 1
  /\ events_prev["reverseGear"] = 0

\* ---------------------------------------------------------------------------
\* The control cycle with one query per tick: the identifiers of the tick are
\* added, create_alerts is called once, clear ends the tick.  surfaced keeps
\* the slots whose alert was returned while their identifier has been reported
\* in every tick since.
\* ---------------------------------------------------------------------------

CycleEventTypes == {<<ET.PERMANENT>>, <<ET.NO_ENTRY>>, <<ET.NO_ENTRY, ET.PERMANENT>>}

CycleReport ==
  /\ pc = "report"
  /\ \E e \in LoopIds \ reported :
       /\ e # "reverseGear" => streak[e] < LoopAgeCap(e)
       /\ add(e, FALSE)
       /\ reported' = reported \cup {e}
  /\ UNCHANGED <<pc, streak, prior, surfaced, sequence>>

CycleCreateAlerts ==
  /\ pc = "report"
  /\ \E event_types \in CycleEventTypes :
       create_alerts(event_types, Context(SoftDisableThreshold, << >>))
  /\ pc' = "query"
  /\ UNCHANGED <<reported, streak, prior, surfaced, sequence>>

\* the slots of the alerts in a list returned by create_alerts
Slots(alerts) ==
  {<<e, et>> \in (DOMAIN EVENTS) \X EventTypes :
     \E i \in 1..Len(alerts) : alerts[i].alert_type = alert_type_of(e, et)}

CycleClear ==
  /\ pc = "query"
  /\ \A e \in reported : streak[e] < LoopAgeCap(e)
  /\ clear
  /\ pc' = "report"
  /\ reported' = {}
  /\ streak' = [k \in LoopIds |-> IF k \in reported THEN streak[k] + 1 ELSE 0]
  /\ surfaced' = {s \in surfaced \cup Slots(ret.value) : s[1] \in reported}
  /\ UNCHANGED sequence
  /\ UNCHANGED prior

NextCycle ==
  \/ CycleReport
  \/ CycleCreateAlerts
  \/ CycleClear

SpecCycle == Init /\ [][NextCycle]_vars

\* C23: a fixed alert that create_alerts returned on an earlier tick, and whose
\* identifier has been reported on every tick since and is reported on this
\* one, is returned by the create_alerts call of this tick when its type is
\* requested.
C23_NoFlicker ==
  pc = "query" =>
    \A e \in reported : \A et \in Requested \cap DOMAIN EVENTS[e] :
      (EVENTS[e][et].kind = "Alert" /\ <<e, et>> \in surfaced) => Count(e, et) >= 1

\* C23 witness: reverseGear's permanent alert (50 ticks) was returned on an
\* earlier tick, reverseGear is in its 51st tick or later and the alert is
\* returned again.
C23_Witness ==
  /\ pc = "query"
  /\ "reverseGear" \in reported
  /\ <<"reverseGear", ET.PERMANENT>> \in surfaced
  /\ streak["reverseGear"] >= 50
  /\ ET.PERMANENT \in Requested
  /\ Count("reverseGear", ET.PERMANENT) = 1

\* the control cycle in which the tick is always carried on: the query of a
\* tick is made and clear ends the tick
SpecCycleFair ==
  SpecCycle /\ WF_vars(CycleCreateAlerts) /\ WF_vars(CycleClear)

\* in the tick whose query has been made, e is reported and et is requested
ReportedAndRequested(e, et) == pc = "query" => (e \in reported /\ et \in Requested)

\* the query of the tick has returned the alert of slot (e, et)
Surfaced(e, et) == pc = "query" /\ Count(e, et) >= 1

\* the query of the tick was made with e reported, et requested and e in at
\* least as many consecutive ticks as the creation delay of the alert
DelayReached(e, et) ==
  /\ pc = "query"
  /\ e \in reported
  /\ et \in Requested
  /\ streak[e] + 1 >= DelayTicks(e, et, ret.args[2])

\* C24: if from some tick on reverseGear is reported and a type of its entry
\* is requested on every tick, and ticks keep being carried on, then
\* create_alerts eventually returns the alert of that type; and it returns it
\* on every tick on which reverseGear has been reported for as many
\* consecutive ticks as the creation delay.
C24_EventualSurfacing ==
  \A et \in {ET.PERMANENT, ET.NO_ENTRY} :
    /\ []([]ReportedAndRequested("reverseGear", et) => <>Surfaced("reverseGear", et))
    /\ [](DelayReached("reverseGear", et) => Surfaced("reverseGear", et))

\* C24 witness: on the 50th consecutive tick of reverseGear the permanent
\* alert, requested after the noEntry alert, is returned.
C24_Witness ==
  /\ pc = "query"
  /\ "reverseGear" \in reported
  /\ streak["reverseGear"] + 1 = 50
  /\ ret.args[1] = <<ET.NO_ENTRY, ET.PERMANENT>>
  /\ Count("reverseGear", ET.PERMANENT) = 1
  /\ Count("reverseGear", ET.NO_ENTRY) = 1

\* ---------------------------------------------------------------------------
\* First tick.  Any identifiers of the catalog are added and create_alerts is
\* called once, before any clear, so every age is 0.
\* ---------------------------------------------------------------------------

MaxDisableEvents == 1

\* the event types that refuse or end engagement
DisableTypes == {ET.NO_ENTRY, ET.SOFT_DISABLE, ET.IMMEDIATE_DISABLE, ET.USER_DISABLE}

\* a car that engages from 5.588 m/s on and gives -1 m/s for a steering speed
\* without lower limit, shown in miles per hour
ImperialContext ==
  [Context(SoftDisableThreshold, << >>) EXCEPT !.CP.minEnableSpeed = 55880,
                                               !.CP.minSteerSpeed = 0 - 10000,
                                               !.metric = FALSE]

DisableContexts ==
  {Context(t, << >>) : t \in {0, SoftDisableThreshold}} \cup {ImperialContext}

DisableAdd ==
  /\ pc = "report"
  /\ Len(events) < MaxDisableEvents
  /\ \E e \in DOMAIN EVENTS : add(e, FALSE)
  /\ UNCHANGED loop

DisableCreateAlerts ==
  /\ \E event_types \in {<<et>> : et \in DisableTypes} \cup {<<ET.PRE_ENABLE, ET.PERMANENT, ET.WARNING>>},
        callback_args \in DisableContexts :
       create_alerts(event_types, callback_args)
  /\ pc = "report"
  /\ pc' = "query"
  /\ UNCHANGED <<reported, streak, prior, surfaced, sequence>>

NextDisable ==
  \/ DisableAdd
  \/ DisableCreateAlerts

SpecDisable == Init /\ [][NextDisable]_vars

\* C25: when create_alerts is called with identifiers at age 0, whatever the
\* callback arguments, it does not raise; an alert of an active identifier has
\* a creation delay other than 0 only in a permanent or preEnable slot; and
\* the alert of every requested noEntry, softDisable, immediateDisable and
\* userDisable slot of an active identifier is returned, with creation delay 0.
C25_DisableNeverDebounced ==
  ret.op = "create_alerts" =>
    /\ ~ret.raised
    /\ \A e \in Elements(events) : \A et \in DOMAIN EVENTS[e] :
         DelayTicks(e, et, ret.args[2]) # 0 => et \in {ET.PERMANENT, ET.PRE_ENABLE}
    /\ \A e \in Elements(events) : \A et \in Requested \cap DOMAIN EVENTS[e] \cap DisableTypes :
         events_prev[e] = 0 =>
           \E i \in 1..Len(ret.value) :
             /\ ret.value[i].alert_type = Named(e, et)
             /\ ret.value[i].creation_delay = 0

\* C25 witness: on its first tick overheat's softDisable alert is returned
\* with soft_disable_time 0, as the immediate-disable wording.
C25_Witness ==
  /\ ret.op = "create_alerts"
  /\ events = <<"overheat">>
  /\ events_prev["overheat"] = 0
  /\ ret.args[2].soft_disable_time = 0
  /\ Len(ret.value) = 1
  /\ ret.value[1].alert_type = "overheat/softDisable"
  /\ ret.value[1].priority = 5
  /\ ret.value[1].creation_delay = 0

====
